---- MODULE Spec2Model ----
(***************************************************************************)
(* A model of the manifest-to-segment-timeline engine of the MPD parser:   *)
(* MpdUtils.createTimeline, the SegmentTemplate / SegmentList validators,  *)
(* the fixed-duration generator and the TimelineSegmentIndex.              *)
(*                                                                         *)
(* Times.  The code computes seconds as unscaled / timescale in floating   *)
(* point.  The model keeps every time in seconds as an exact count of      *)
(* half seconds, and timescales are 1 or 2 ticks per second, so that       *)
(* ToSeconds (the division by the timescale) is exact and is not the       *)
(* identity.  A period start, a period duration and an availability time   *)
(* are counts of half seconds too.                                         *)
(***************************************************************************)
EXTENDS Integers, Sequences, FiniteSets, TLC

\* ------------------------------------------------------------------ bounds
\* Largest number of S elements of one SegmentTimeline.
MaxS == 2
\* Latest segment availability end given to the fixed-duration generator.
MaxAvailability == 20
\* Largest position asked of get, and cap of the eviction counter.
MaxPosition == 3
\* Largest time asked of find and evict (half seconds).
MaxTime == 3
\* Cap of the number of SegmentReference objects get constructs.
MaxRefs == 2
\* Cap of the number of manifest refreshes (appendTemplateInfo calls).
MaxUpdates == 1

\* ----------------------------------------------------------------- values
\* JavaScript null / undefined where an object is expected (a template
\* info, a SegmentReference, a hole of the reference cache).
Null == [null |-> TRUE]
\* JavaScript null where a non-negative number is expected (a missing @t, a
\* position that find did not find).
None == -1
\* JavaScript Infinity: larger than every finite time of the model.
Infinity == 999999

\* ManifestParserUtils.ContentType.
ContentType ==
    [VIDEO |-> "video", AUDIO |-> "audio", TEXT |-> "text", IMAGE |-> "image",
     APPLICATION |-> "application"]

TimeScales == {1, 2}

\* unscaled / timescale, in half seconds.
ToSeconds(unscaled, timescale) == (unscaled * 2) \div timescale

\* Math.ceil(a / b) for b > 0.
Ceil(a, b) == -((-a) \div b)

Min(a, b) == IF a <= b THEN a ELSE b
Max(a, b) == IF a >= b THEN a ELSE b

\* ---------------------------------------------------- MpdUtils.createTimeline
\* The parsed attributes of one S element: t is None or a non-negative
\* integer, d = 0 stands for a missing or zero @d (both are falsy), r = 0
\* stands for a missing @r as well.
SElements == [t : {None, 0, 1, 2}, d : {0, 1, 2}, r : {-1, 0, 1}]

SSequences == UNION {[1..n -> SElements] : n \in 0..MaxS}

\* One TimeRange; start and end in half seconds.
TimeRange(startTime, endTime, timescale, position) ==
    [start |-> ToSeconds(startTime, timescale),
     end |-> ToSeconds(endTime, timescale),
     unscaledStart |-> startTime,
     segmentPosition |-> position]

\* Lines 593-606: the j loop, pushing repeat + 1 items from startTime on.
RECURSIVE PushRepeats(_, _, _, _, _, _)
PushRepeats(timeline, startTime, d, repeat, timescale, startNumber) ==
    IF repeat < 0 THEN timeline
    ELSE PushRepeats(
             Append(timeline,
                    TimeRange(startTime, startTime + d, timescale,
                              Len(timeline) + startNumber)),
             startTime + d, d, repeat - 1, timescale, startNumber)

\* StretchLast without lines 582-591: the last item keeps its end.
StretchLastNever(timeline, startTime, lastEndTime, timescale) == timeline

\* Lines 582-591: the end of the last item is moved to the start of the
\* current S element when they differ (a gap or an overlap).
StretchLast(timeline, startTime, lastEndTime, timescale) ==
    IF Len(timeline) > 0 /\ startTime # lastEndTime
    THEN [timeline EXCEPT ![Len(timeline)].end = ToSeconds(startTime, timescale)]
    ELSE timeline

\* Lines 533-572: the repeat count of S element i; None when the function
\* returns the timeline built so far.  periodDuration is in half seconds.
RepeatCount(S, i, startTime, timescale, periodDuration) ==
    LET d == S[i].d
        r == S[i].r
    IN  IF r >= 0 THEN r
        ELSE IF i < Len(S)
        THEN IF S[i + 1].t = None THEN None
             ELSE IF startTime >= S[i + 1].t THEN None
             ELSE Ceil(S[i + 1].t - startTime, d) - 1
        ELSE IF periodDuration = Infinity THEN None
             ELSE IF ToSeconds(startTime, timescale) >= periodDuration THEN None
             ELSE Ceil(periodDuration * timescale - 2 * startTime, 2 * d) - 1

\* Lines 507-607: the loop over the S elements from element i on.
RECURSIVE TimelineLoop(_, _, _, _, _, _, _, _)
TimelineLoop(S, i, timeline, lastEndTime, timescale, pto, periodDuration, startNumber) ==
    IF i > Len(S) THEN timeline
    ELSE LET d == S[i].d
             startTime == IF S[i].t # None THEN S[i].t - pto ELSE lastEndTime
             repeat == RepeatCount(S, i, startTime, timescale, periodDuration)
         IN  IF d = 0 THEN timeline
             ELSE IF repeat = None THEN timeline
             ELSE TimelineLoop(
                      S, i + 1,
                      PushRepeats(
                          StretchLast(timeline, startTime, lastEndTime,
                                      timescale),
                          startTime, d, repeat, timescale, startNumber),
                      startTime + (repeat + 1) * d,
                      timescale, pto, periodDuration, startNumber)

createTimeline(S, timescale, unscaledPresentationTimeOffset, periodDuration, startNumber) ==
    TimelineLoop(S, 1, <<>>, -unscaledPresentationTimeOffset, timescale,
                 unscaledPresentationTimeOffset, periodDuration, startNumber)

\* --------------------------------------------------------------- variables
VARIABLES
    \* TimelineSegmentIndex (and its base SegmentIndex) fields.
    templateInfo_,   \* Null, or [timeline |-> sequence of TimeRange]
    references,      \* the reference cache: a sequence with Null for a hole
    numEvicted_,
    periodStart_,
    periodEnd_,
    nextRefId,       \* the number of SegmentReference objects constructed
    numUpdates,      \* the number of appendTemplateInfo calls so far
    handedOut,       \* position -> id returned by get since the last
                     \* evict / release (0: none)
    ret,             \* the last call on the index: [op, arg, val]
    \* MpdUtils.createTimeline: its arguments and its result.
    ctArgs,
    ctResult,
    \* SegmentTemplate.generateSegmentIndexFromDuration_: the context it is
    \* called with and the SegmentIndex it builds.
    genContext,
    genIndex,
    \* SegmentTemplate.createStreamInfo: the SegmentTemplate of the manifest
    \* and what the call did with it.
    tplContext,
    tplResult,
    \* SegmentList.createStreamInfo: the SegmentList of the manifest and what
    \* the call did with it.
    listContext,
    listResult,
    \* DashMpdParser.parseRepresentation_: the Representation it is called
    \* with and what the call did (Null: not part of the run).
    representation,
    \* The DashMpdParser object: its fields, the PresentationTimeline and
    \* the streams it made, the outcome of the last call (Null: not part of
    \* the run).
    parser,
    \* WebmSegmentIndexParser.parse: the Cues and the container it is given
    \* and the references it returns (Null: not part of the run).
    cues,
    \* MpdUtils.fillUriTemplate: its arguments and the string it returns
    \* (Null: not part of the run).
    uri,
    \* The regeneration timer of a fixed-duration SegmentIndex: what its
    \* ticks did (Null: not part of the run).
    ticker,
    \* The Period, AdaptationSet and Representation elements of one
    \* Representation and what the inheritance gives for them (Null: not part
    \* of the run).
    frames,
    \* A Stream and the calls of its createSegmentIndex (Null: not part of the
    \* run).
    stream,
    \* A DataViewReader: its bytes, its position and the outcome of the last
    \* call (Null: not part of the run).
    reader,
    \* An AbortableOperation, the operation chained to it and their promises
    \* (Null: not part of the run).
    operation

tsiVars == <<templateInfo_, references, numEvicted_, periodStart_, periodEnd_,
             nextRefId, numUpdates, handedOut, ret>>
ctVars == <<ctArgs, ctResult>>
genVars == <<genContext, genIndex>>
tplVars == <<tplContext, tplResult>>
listVars == <<listContext, listResult>>
coreVars == <<tsiVars, ctVars, genVars, tplVars, listVars>>
lateVars == <<frames, stream, reader, operation>>
extVars == <<representation, parser, cues, uri, ticker, lateVars>>
vars == <<coreVars, extVars>>

\* ------------------------------------------------- TimelineSegmentIndex
\* The fields of the index as one record, so that a method that calls
\* another one (appendTemplateInfo -> fitTimeline -> evict -> release) is
\* the composition of the operators below.
Self ==
    [templateInfo_ |-> templateInfo_, references |-> references,
     numEvicted_ |-> numEvicted_, periodStart_ |-> periodStart_,
     periodEnd_ |-> periodEnd_]

getNumReferences(s) ==
    IF s.templateInfo_ # Null THEN Len(s.templateInfo_.timeline) ELSE 0

\* SegmentIndex.isEmpty of the base class.
isEmpty(s) == getNumReferences(s) = 0

\* SegmentIndex.release of the base class: the references are dropped.
SegmentIndexRelease(s) == [s EXCEPT !.references = <<>>]

\* SegmentIndex.getIsImmutable of the base class: nothing marks the index
\* immutable.
getIsImmutable(s) == FALSE

release(s) == [SegmentIndexRelease(s) EXCEPT !.templateInfo_ = Null]

\* Lines 585-596: the number of leading entries with end + periodStart <= time.
RECURSIVE NumToEvict(_, _, _, _)
NumToEvict(timeline, i, periodStart, time) ==
    IF i > Len(timeline) THEN i - 1
    ELSE IF timeline[i].end + periodStart <= time
         THEN NumToEvict(timeline, i + 1, periodStart, time)
         ELSE i - 1

\* Array.prototype.slice(n).
Slice(seq, n) == SubSeq(seq, n + 1, Len(seq))

\* EvictLeading without lines 606-608: the emptied index is not released.
EvictLeadingNoRelease(s, numToEvict) ==
    [s EXCEPT
       !.templateInfo_.timeline = Slice(@, numToEvict),
       !.references = IF Len(@) >= numToEvict THEN Slice(@, numToEvict) ELSE @,
       !.numEvicted_ = @ + numToEvict]

\* Lines 598-609 of evict, for numToEvict > 0.
EvictLeading(s, numToEvict) ==
    LET sliced ==
            [s EXCEPT
               !.templateInfo_.timeline = Slice(@, numToEvict),
               !.references = IF Len(@) >= numToEvict
                              THEN Slice(@, numToEvict) ELSE @,
               !.numEvicted_ = @ + numToEvict]
    IN  IF getNumReferences(sliced) = 0 THEN release(sliced) ELSE sliced

evict(s, time) ==
    IF s.templateInfo_ = Null THEN s
    ELSE LET numToEvict ==
                 NumToEvict(s.templateInfo_.timeline, 1, s.periodStart_, time)
         IN  IF numToEvict > 0 THEN EvictLeading(s, numToEvict) ELSE s

\* Lines 677-684: pop the trailing entries that start at or after periodEnd_.
RECURSIVE PopTrailing(_, _)
PopTrailing(timeline, periodEnd) ==
    IF Len(timeline) > 0 /\ timeline[Len(timeline)].start >= periodEnd
    THEN PopTrailing(SubSeq(timeline, 1, Len(timeline) - 1), periodEnd)
    ELSE timeline

fitTimeline(s) ==
    IF getIsImmutable(s) THEN s
    ELSE evict([s EXCEPT !.templateInfo_.timeline = PopTrailing(@, s.periodEnd_)],
               s.periodStart_)

\* new TimelineSegmentIndex(templateInfo, ..., periodStart, periodEnd, ...,
\* shouldFit, ...).
Constructor(info, periodStart, periodEnd, shouldFit) ==
    LET s == [templateInfo_ |-> info, references |-> <<>>, numEvicted_ |-> 0,
              periodStart_ |-> periodStart, periodEnd_ |-> periodEnd]
    IN  IF shouldFit THEN fitTimeline(s) ELSE s

\* Lines 633-636: the entries of the new timeline that start at or after the
\* end of the current last entry.
NewEntries(timeline, lastCurrentEntry) ==
    SelectSeq(timeline, LAMBDA entry : entry.start >= lastCurrentEntry.end)

\* appendTemplateInfo throws a TypeError at line 635 when the index holds a
\* template info with an empty timeline (lastCurrentEntry is undefined) and
\* the new timeline has an entry to filter.
AppendThrows(s, info) ==
    /\ s.templateInfo_ # Null
    /\ Len(s.templateInfo_.timeline) = 0
    /\ Len(info.timeline) > 0

appendTemplateInfo(s, info, periodStart, periodEnd, shouldFit) ==
    IF AppendThrows(s, info) THEN s
    ELSE
    LET merged ==
            IF s.templateInfo_ = Null
            THEN [s EXCEPT !.templateInfo_ = info,
                           !.periodStart_ = periodStart,
                           !.periodEnd_ = periodEnd]
            ELSE [s EXCEPT
                    !.templateInfo_.timeline =
                        IF Len(@) = 0 THEN @
                        ELSE @ \o NewEntries(info.timeline, @[Len(@)]),
                    !.periodEnd_ = periodEnd]
    IN  IF shouldFit THEN fitTimeline(merged) ELSE merged

\* isBeforeFirstEntry answering false everywhere.
isBeforeFirstEntryNever(s, time) == FALSE

\* isBeforeFirstEntry answering true on an index without entries.
isBeforeFirstEntryWhenEmpty(s, time) ==
    IF s.templateInfo_ # Null /\ Len(s.templateInfo_.timeline) > 0
    THEN time < s.templateInfo_.timeline[1].start + s.periodStart_
    ELSE TRUE

isBeforeFirstEntry(s, time) ==
    IF s.templateInfo_ # Null /\ Len(s.templateInfo_.timeline) > 0
    THEN time < s.templateInfo_.timeline[1].start + s.periodStart_
    ELSE FALSE

\* Lines 717-737: the scan of find from (0-based) index i on.
RECURSIVE FindScan(_, _, _)
FindScan(s, i, time) ==
    LET timeline == s.templateInfo_.timeline
        lastIndex == Len(timeline) - 1
    IN  IF i >= Len(timeline) THEN None
        ELSE LET range == timeline[i + 1]
                 start == range.start + s.periodStart_
                 end == IF i < lastIndex
                        THEN timeline[i + 2].start + s.periodStart_
                        ELSE IF s.periodEnd_ = Infinity
                        THEN range.end + s.periodStart_
                        ELSE s.periodEnd_
             IN  IF time >= start /\ time < end THEN i + s.numEvicted_
                 ELSE FindScan(s, i + 1, time)

find(s, time) ==
    IF isBeforeFirstEntry(s, time) THEN s.numEvicted_
    ELSE IF s.templateInfo_ = Null THEN None
    ELSE IF time < s.periodStart_ \/ time >= s.periodEnd_ THEN None
    ELSE FindScan(s, 0, time)

\* Lines 755-853: the SegmentReference get constructs for the entry at
\* correctedPosition; id is the identity of the new object.
NewReference(s, correctedPosition, id) ==
    LET range == s.templateInfo_.timeline[correctedPosition + 1]
        trueSegmentEnd == s.periodStart_ + range.end
        segmentEnd ==
            IF correctedPosition = getNumReferences(s) - 1
               /\ s.periodEnd_ # Infinity
            THEN s.periodEnd_ ELSE trueSegmentEnd
    IN  [id |-> id,
         startTime |-> s.periodStart_ + range.start,
         endTime |-> segmentEnd,
         trueEndTime |-> trueSegmentEnd,
         segmentPosition |-> range.segmentPosition]

\* this.references[correctedPosition]: undefined past the end and in a hole.
CachedAt(s, correctedPosition) ==
    IF correctedPosition < Len(s.references)
    THEN s.references[correctedPosition + 1] ELSE Null

\* this.references[correctedPosition] = ref: the array grows with holes.
StoreAt(refs, correctedPosition, ref) ==
    [i \in 1..Max(Len(refs), correctedPosition + 1) |->
        IF i = correctedPosition + 1 THEN ref
        ELSE IF i <= Len(refs) THEN refs[i] ELSE Null]

\* get(position): the reference returned (Null when out of range).
getRef(s, position, id) ==
    LET correctedPosition == position - s.numEvicted_
    IN  IF correctedPosition < 0 \/ correctedPosition >= getNumReferences(s)
           \/ s.templateInfo_ = Null
        THEN Null
        ELSE IF CachedAt(s, correctedPosition) # Null
        THEN CachedAt(s, correctedPosition)
        ELSE NewReference(s, correctedPosition, id)

\* get(position) that does not store the reference it constructs.
getStateNoCache(s, position, id) == s

\* get(position): the index after the call.
getState(s, position, id) ==
    LET correctedPosition == position - s.numEvicted_
        ref == getRef(s, position, id)
    IN  IF ref = Null \/ CachedAt(s, correctedPosition) # Null THEN s
        ELSE [s EXCEPT !.references = StoreAt(@, correctedPosition, ref)]

\* ------------------------------------------ SegmentTemplate.createStreamInfo
\* What a manifest says about one representation with a SegmentTimeline.
\* The manifests handed to the index have one or two S elements: the first
\* starts at 0, with or without a duration, repeated or not; the second
\* continues the first (no @t) or starts again at 0 (an overlap).  Their
\* timescale is 2, so that a tick is a half second.  The period starts at 0
\* or at a half second and has a duration of one second or none
\* (duration = 0).
FirstElements == [t : {0}, d : {0, 1}, r : {0, 1}]
NextElements == [t : {None, 0}, d : {1}, r : {0}]

Manifests ==
    [S : {<<e>> : e \in FirstElements}
         \cup {<<e, f>> : e \in FirstElements, f \in NextElements},
     timescale : {2}, pto : {0}, startNumber : {1},
     start : {0, 1}, duration : {0, 2},
     dynamic : BOOLEAN, isLastPeriod : {TRUE}]

\* Lines 656-664 of parseSegmentInfo: the timeline of the manifest.
ParsedTimeline(m) ==
    createTimeline(m.S, m.timescale, m.pto,
                   IF m.duration # 0 THEN m.duration ELSE Infinity,
                   m.startNumber)

\* Lines 123-125.
PeriodEnd(m) == IF m.duration # 0 THEN m.start + m.duration ELSE Infinity

\* Line 145.
ShouldFit(m) == ~(m.dynamic /\ m.isLastPeriod)

\* The arguments createStreamInfo hands to the index for a manifest.
TsiArgs(m) ==
    [info |-> [timeline |-> ParsedTimeline(m)], periodStart |-> m.start,
     periodEnd |-> PeriodEnd(m), shouldFit |-> ShouldFit(m)]

Updates == {TsiArgs(m) : m \in Manifests}

\* ------------------------------------------------------------- the index
Idle == [op |-> "none", arg |-> None, val |-> None]

Set(s) ==
    /\ templateInfo_' = s.templateInfo_
    /\ references' = s.references
    /\ numEvicted_' = s.numEvicted_
    /\ periodStart_' = s.periodStart_
    /\ periodEnd_' = s.periodEnd_

TsiInit ==
    \E u \in Updates :
        LET s == Constructor(u.info, u.periodStart, u.periodEnd, u.shouldFit)
        IN  /\ templateInfo_ = s.templateInfo_
            /\ references = s.references
            /\ numEvicted_ = s.numEvicted_
            /\ periodStart_ = s.periodStart_
            /\ periodEnd_ = s.periodEnd_
            /\ nextRefId = 0
            /\ numUpdates = 0
            /\ handedOut = {}
            /\ ret = Idle

Positions == 0..MaxPosition
Times == 0..MaxTime

\* segmentIndex.get(position)
Get(position) ==
    LET ref == getRef(Self, position, nextRefId + 1)
    IN  /\ ref # Null => ref.id <= MaxRefs
        /\ Set(getState(Self, position, nextRefId + 1))
        /\ nextRefId' = IF ref # Null /\ ref.id = nextRefId + 1
                        THEN nextRefId + 1 ELSE nextRefId
        /\ handedOut' =
               IF ref = Null THEN handedOut
               ELSE {h \in handedOut : h[1] # position}
                    \cup {<<position, ref.id>>}
        /\ ret' = [op |-> "get", arg |-> position, val |-> ref]
        /\ UNCHANGED <<numUpdates, ctVars, genVars, tplVars, listVars, extVars>>

\* segmentIndex.find(time)
Find(time) ==
    /\ ret' = [op |-> "find", arg |-> time, val |-> find(Self, time)]
    /\ UNCHANGED <<templateInfo_, references, numEvicted_, periodStart_,
                   periodEnd_, nextRefId, numUpdates, handedOut>>
    /\ UNCHANGED <<ctVars, genVars, tplVars, listVars, extVars>>

\* segmentIndex.evict(time); val is the number of entries evicted.
Evict(time) ==
    LET s == evict(Self, time)
    IN  /\ s.numEvicted_ <= MaxPosition
        /\ Set(s)
        /\ handedOut' = {}
        /\ ret' = [op |-> "evict", arg |-> time,
                   val |-> s.numEvicted_ - numEvicted_]
        /\ UNCHANGED <<nextRefId, numUpdates>>
        /\ UNCHANGED <<ctVars, genVars, tplVars, listVars, extVars>>

\* segmentIndex.release()
Release ==
    /\ Set(release(Self))
    /\ handedOut' = {}
    /\ ret' = [op |-> "release", arg |-> None, val |-> None]
    /\ UNCHANGED <<nextRefId, numUpdates>>
    /\ UNCHANGED <<ctVars, genVars, tplVars, listVars, extVars>>

\* segmentIndex.appendTemplateInfo(info, periodStart, periodEnd, shouldFit,
\* initSegmentReference) with what a refreshed manifest says; val tells
\* whether the call threw.
AppendTemplateInfo(u) ==
    LET s == appendTemplateInfo(Self, u.info, u.periodStart, u.periodEnd,
                                u.shouldFit)
    IN  /\ numUpdates < MaxUpdates
        /\ s.numEvicted_ <= MaxPosition
        /\ Set(s)
        /\ handedOut' = IF u.shouldFit /\ ~AppendThrows(Self, u.info)
                        THEN {} ELSE handedOut
        /\ ret' = [op |-> "appendTemplateInfo", arg |-> None,
                   val |-> IF AppendThrows(Self, u.info) THEN 1 ELSE 0]
        /\ numUpdates' = numUpdates + 1
        /\ UNCHANGED <<nextRefId, ctVars, genVars, tplVars, listVars, extVars>>

\* A refreshed manifest describes the same period: its start is the one the
\* index was built with.
Refreshes == {u \in Updates : u.periodStart = periodStart_}

TsiNext ==
    \/ \E position \in Positions : Get(position)
    \/ \E time \in Times : Find(time)
    \/ \E time \in Times : Evict(time)
    \/ Release
    \/ \E u \in Refreshes : AppendTemplateInfo(u)

TsiIdle ==
    /\ templateInfo_ = Null
    /\ references = <<>>
    /\ numEvicted_ = 0
    /\ periodStart_ = 0
    /\ periodEnd_ = Infinity
    /\ nextRefId = 0
    /\ numUpdates = 0
    /\ handedOut = {}
    /\ ret = Idle

\* ------------------------------------------------ createTimeline, applied
\* The arguments of a call: the S elements, the timescale, the unscaled
\* presentationTimeOffset, the period duration (half seconds, or Infinity)
\* and the start number.
CtArguments ==
    [S : SSequences, timescale : TimeScales, pto : {0, 1},
     periodDuration : {4, Infinity}, startNumber : {0, 1}]

NoTimeline == [done |-> FALSE, timeline |-> <<>>]

CtIdle == ctArgs = Null /\ ctResult = NoTimeline

CtInit == ctArgs \in CtArguments /\ ctResult = NoTimeline

CreateTimeline ==
    /\ ~ctResult.done
    /\ ctResult' =
           [done |-> TRUE,
            timeline |-> createTimeline(ctArgs.S, ctArgs.timescale, ctArgs.pto,
                                        ctArgs.periodDuration,
                                        ctArgs.startNumber)]
    /\ UNCHANGED <<ctArgs, tsiVars, genVars, tplVars, listVars, extVars>>

\* ------------------------- SegmentTemplate.generateSegmentIndexFromDuration_
\* Times are half seconds here too; a duration of 0 is an unknown duration
\* (the falsy values of the code).  The presentation timeline is given by
\* its segment availability start and end and by isLive().
GenContexts ==
    {c \in [periodStart : {0, 1}, duration : {0, 5, 20}, mapDuration : {0, 6},
            segmentDuration : {2, 3, 8}, startNumber : {0, 1},
            dynamic : BOOLEAN, isLive : BOOLEAN, segmentLimit : {1, 2},
            availabilityStart : {0, 1, 3},
            availabilityEnd : 1..MaxAvailability] :
        /\ c.availabilityStart <= c.availabilityEnd
        /\ c.isLive => c.dynamic}

\* Lines 325-331; mapDuration is periodDurationMap[periodId].
getPeriodEnd(context) ==
    LET periodDuration ==
            IF context.mapDuration # 0 THEN context.mapDuration
            ELSE context.duration
    IN  IF periodDuration # 0 THEN context.periodStart + periodDuration
        ELSE Infinity

\* Lines 346-356.
computeAvailablePeriodRange(context) ==
    <<Max(context.availabilityStart, context.periodStart),
      Min(context.availabilityEnd, getPeriodEnd(context))>>

\* computeAvailablePositionRange rounding down where lines 370-371 round up.
computeAvailablePositionRangeFloor(context) ==
    LET availablePresentationTimes == computeAvailablePeriodRange(context)
    IN  <<((availablePresentationTimes[1] - context.periodStart)
              \div context.segmentDuration) + context.startNumber,
          ((availablePresentationTimes[2] - context.periodStart)
              \div context.segmentDuration) - 1 + context.startNumber>>

\* Lines 358-377.
computeAvailablePositionRange(context) ==
    LET availablePresentationTimes == computeAvailablePeriodRange(context)
    IN  <<Ceil(availablePresentationTimes[1] - context.periodStart,
               context.segmentDuration) + context.startNumber,
          Ceil(availablePresentationTimes[2] - context.periodStart,
               context.segmentDuration) - 1 + context.startNumber>>

\* The first position of the range, for a manifest that is never clipped.
minPositionUnclipped(context) == computeAvailablePositionRange(context)[1]

\* Lines 380-382.
minPosition(context) ==
    LET range == computeAvailablePositionRange(context)
    IN  IF context.dynamic
        THEN Max(range[1], range[2] - context.segmentLimit + 1)
        ELSE range[1]

\* Line 383.
maxPosition(context) == computeAvailablePositionRange(context)[2]

\* Lines 386-427.  position is not a field of SegmentReference: it is kept
\* to tell which position a reference was created for.
createReference(context, position) ==
    LET positionWithinPeriod == position - context.startNumber
        segmentPeriodTime == positionWithinPeriod * context.segmentDuration
        segmentStart == segmentPeriodTime + context.periodStart
        trueSegmentEnd == segmentStart + context.segmentDuration
        segmentEnd == Min(trueSegmentEnd, getPeriodEnd(context))
    IN  [position |-> position, startTime |-> segmentStart,
         endTime |-> segmentEnd, trueEndTime |-> trueSegmentEnd]

\* Lines 429-432.
GeneratedReferences(context) ==
    [i \in 1..(maxPosition(context) - minPosition(context) + 1) |->
        createReference(context, minPosition(context) + i - 1)]

\* The assertion of line 406 fails for one of the references.
GenerationAsserts(context) ==
    \E i \in 1..Len(GeneratedReferences(context)) :
        ~(GeneratedReferences(context)[i].startTime
              < GeneratedReferences(context)[i].endTime)

NotGenerated ==
    [generated |-> FALSE, threw |-> FALSE, references |-> <<>>,
     nextPosition |-> 0, updating |-> FALSE]

GenIdle == genContext = Null /\ genIndex = NotGenerated

GenInit == genContext \in GenContexts /\ genIndex = NotGenerated

\* generateSegmentIndexFromDuration_(context, info, segmentLimit, ...):
\* the references of the available range, and the regeneration callback
\* registered when the range can still move (lines 436-460).
GenerateSegmentIndexFromDuration ==
    /\ ~genIndex.generated
    /\ genIndex' =
           IF GenerationAsserts(genContext)
           THEN [NotGenerated EXCEPT !.generated = TRUE, !.threw = TRUE]
           ELSE [generated |-> TRUE, threw |-> FALSE,
                 references |-> GeneratedReferences(genContext),
                 nextPosition |-> Max(minPosition(genContext),
                                      maxPosition(genContext) + 1),
                 updating |->
                     \/ genContext.availabilityEnd < getPeriodEnd(genContext)
                     \/ genContext.isLive]
    /\ UNCHANGED <<genContext, tsiVars, ctVars, tplVars, listVars, extVars>>

\* ------------------------------------------ SegmentTemplate.createStreamInfo
\* An attribute is Null (absent) or [value |-> string]; an array that can be
\* null is Null or [items |-> sequence].
Attr(string) == [value |-> string]
Array(seq) == [items |-> seq]

\* if (attribute), if (array)
TruthyAttr(attribute) == attribute # Null /\ attribute.value # ""
TruthyNumber(number) == number # None /\ number # 0

\* What the manifest says in the SegmentTemplate: the index and media
\* attributes, the duration attribute as xml_utils.parsePositiveInt returns
\* it (None for null), the S elements of the SegmentTimeline child (Null
\* without one), and what checkSegmentIndexSupport looks at.
TplContexts ==
    [index : {Null, Attr(""), Attr("index-$RepresentationID$.mp4")},
     media : {Null, Attr(""), Attr("media-$Number$.mp4")},
     duration : {None, 1, 2},
     timescale : {2},
     timelineNode : {Null, Array(<<>>), Array(<<[t |-> 0, d |-> 1, r |-> 1]>>)},
     containerType : {"mp4", "webm", "ogg"},
     contentType : {"video", "text"},
     initialization : BOOLEAN]

\* Lines 214-230, with lines 633-664 of MpdUtils.parseSegmentInfo.
parseSegmentTemplateInfo_(context) ==
    [segmentDuration |->
         IF TruthyNumber(context.duration)
         THEN ToSeconds(context.duration, context.timescale)
         ELSE context.duration,
     timeline |->
         IF context.timelineNode # Null
         THEN Array(createTimeline(context.timelineNode.items,
                                   context.timescale, 0, Infinity, 1))
         ELSE Null,
     mediaTemplate |-> context.media,
     indexTemplate |-> context.index]

\* Lines 241-244.
NumSources(info) ==
    (IF TruthyAttr(info.indexTemplate) THEN 1 ELSE 0)
    + (IF info.timeline # Null THEN 1 ELSE 0)
    + (IF TruthyNumber(info.segmentDuration) THEN 1 ELSE 0)

\* checkSegmentTemplateInfo_ with the segment duration preferred to the
\* timeline.
checkSegmentTemplateInfoDurationFirst(info) ==
    LET n == NumSources(info)
        chosen ==
            IF n <= 1 THEN info
            ELSE IF TruthyAttr(info.indexTemplate)
            THEN [info EXCEPT !.timeline = Null, !.segmentDuration = None]
            ELSE [info EXCEPT !.timeline = Null]
    IN  IF n = 0 THEN [error |-> "DASH_NO_SEGMENT_INFO", info |-> info]
        ELSE IF ~TruthyAttr(chosen.indexTemplate)
                /\ ~TruthyAttr(chosen.mediaTemplate)
        THEN [error |-> "DASH_NO_SEGMENT_INFO", info |-> chosen]
        ELSE [error |-> "", info |-> chosen]

\* Lines 240-277: the error thrown ("" for none) and info as the call
\* leaves it.
checkSegmentTemplateInfo_(info) ==
    LET n == NumSources(info)
        chosen ==
            IF n <= 1 THEN info
            ELSE IF TruthyAttr(info.indexTemplate)
            THEN [info EXCEPT !.timeline = Null, !.segmentDuration = None]
            ELSE [info EXCEPT !.segmentDuration = None]
    IN  IF n = 0 THEN [error |-> "DASH_NO_SEGMENT_INFO", info |-> info]
        ELSE IF ~TruthyAttr(chosen.indexTemplate)
                /\ ~TruthyAttr(chosen.mediaTemplate)
        THEN [error |-> "DASH_NO_SEGMENT_INFO", info |-> chosen]
        ELSE [error |-> "", info |-> chosen]

\* SegmentBase.checkSegmentIndexSupport: the error thrown ("" for none).
checkSegmentIndexSupport(context) ==
    IF context.contentType # ContentType.TEXT
       /\ context.containerType \notin {"mp4", "webm"}
    THEN "DASH_UNSUPPORTED_CONTAINER"
    ELSE IF context.containerType = "webm" /\ ~context.initialization
    THEN "DASH_WEBM_MISSING_INIT"
    ELSE ""

\* Lines 83-195: the branch createStreamInfo takes for a checked info.
GenerationPath(info) ==
    IF TruthyAttr(info.indexTemplate) THEN "index"
    ELSE IF TruthyNumber(info.segmentDuration) THEN "duration"
    ELSE "timeline"

TplNotCalled == [done |-> FALSE, error |-> "", info |-> Null, path |-> ""]

TplIdle == tplContext = Null /\ tplResult = TplNotCalled

TplInit == tplContext \in TplContexts /\ tplResult = TplNotCalled

\* SegmentTemplate.createStreamInfo(context, ...): the info it parses and
\* checks, the branch it takes and the error it throws.
TemplateCreateStreamInfo ==
    LET checked ==
            checkSegmentTemplateInfo_(parseSegmentTemplateInfo_(tplContext))
        path == GenerationPath(checked.info)
    IN  /\ ~tplResult.done
        /\ tplResult' =
               IF checked.error # ""
               THEN [done |-> TRUE, error |-> checked.error,
                     info |-> checked.info, path |-> ""]
               ELSE [done |-> TRUE,
                     error |-> IF path = "index"
                               THEN checkSegmentIndexSupport(tplContext)
                               ELSE "",
                     info |-> checked.info, path |-> path]
        /\ UNCHANGED <<tplContext, tsiVars, ctVars, genVars, listVars, extVars>>

\* ---------------------------------------------- SegmentList.createStreamInfo
\* What the manifest says in the SegmentList: the duration attribute as
\* xml_utils.parsePositiveInt returns it (None for null), the S elements of
\* the SegmentTimeline child (Null without one), the startNumber, the number
\* of SegmentURL children, and the start and duration of the period (0: no
\* duration).
ListContexts ==
    [duration : {None, 1, 2},
     timescale : {2},
     timelineNode : {Null, Array(<<>>), Array(<<[t |-> 0, d |-> 1, r |-> 0]>>),
                     Array(<<[t |-> 0, d |-> 1, r |-> 1]>>)},
     startNumber : {0, 1, 2},
     numSegmentURLs : 0..3,
     periodStart : {0, 1},
     periodDuration : {0, 4}]

\* Lines 1054-1083, with lines 633-664 of MpdUtils.parseSegmentInfo;
\* mediaSegments is the list of the SegmentURL children, by their index.
parseSegmentListInfo_(context) ==
    LET segmentDuration ==
            IF TruthyNumber(context.duration)
            THEN ToSeconds(context.duration, context.timescale)
            ELSE context.duration
        timeline ==
            IF context.timelineNode # Null
            THEN Array(createTimeline(
                     context.timelineNode.items, context.timescale, 0,
                     IF context.periodDuration # 0
                     THEN context.periodDuration ELSE Infinity,
                     context.startNumber))
            ELSE Null
        startNumber == IF context.startNumber = 0 THEN 1
                       ELSE context.startNumber
    IN  [segmentDuration |-> segmentDuration,
         startTime |->
             IF TruthyNumber(segmentDuration)
             THEN segmentDuration * (startNumber - 1)
             ELSE IF timeline # Null /\ Len(timeline.items) > 0
             THEN timeline.items[1].start
             ELSE 0,
         startNumber |-> startNumber,
         timeline |-> timeline,
         mediaSegments |-> [i \in 1..context.numSegmentURLs |-> i]]

\* checkSegmentListInfo_ without lines 1114-1120.
checkSegmentListInfoNoEmptyCheck(context, info) ==
    IF /\ ~TruthyNumber(info.segmentDuration)
       /\ info.timeline = Null
       /\ Len(info.mediaSegments) > 1
    THEN "DASH_NO_SEGMENT_INFO"
    ELSE IF /\ ~TruthyNumber(info.segmentDuration)
            /\ context.periodDuration = 0
            /\ info.timeline = Null
            /\ Len(info.mediaSegments) = 1
    THEN "DASH_NO_SEGMENT_INFO"
    ELSE ""

\* Lines 1092-1121: the error thrown ("" for none).
checkSegmentListInfo_(context, info) ==
    IF /\ ~TruthyNumber(info.segmentDuration)
       /\ info.timeline = Null
       /\ Len(info.mediaSegments) > 1
    THEN "DASH_NO_SEGMENT_INFO"
    ELSE IF /\ ~TruthyNumber(info.segmentDuration)
            /\ context.periodDuration = 0
            /\ info.timeline = Null
            /\ Len(info.mediaSegments) = 1
    THEN "DASH_NO_SEGMENT_INFO"
    ELSE IF info.timeline # Null /\ Len(info.timeline.items) = 0
    THEN "DASH_NO_SEGMENT_INFO"
    ELSE ""

\* Lines 1157-1201: the loop of createSegmentReferences_ from index i on.
RECURSIVE SegmentReferencesLoop(_, _, _, _, _, _, _)
SegmentReferencesLoop(periodStart, periodDuration, info, max, i, prevEndTime, refs) ==
    IF i >= max THEN refs
    ELSE LET startTime == prevEndTime
             endTime ==
                 IF info.segmentDuration # None
                 THEN startTime + info.segmentDuration
                 ELSE IF info.timeline # Null
                 THEN info.timeline.items[i + 1].end
                 ELSE startTime + periodDuration
         IN  SegmentReferencesLoop(
                 periodStart, periodDuration, info, max, i + 1, endTime,
                 Append(refs,
                        [startTime |-> periodStart + startTime,
                         endTime |-> periodStart + endTime,
                         mediaSegment |-> info.mediaSegments[i + 1]]))

\* Lines 1136-1204.
createSegmentReferences_(periodStart, periodDuration, info) ==
    LET max ==
            IF info.timeline # Null
               /\ Len(info.timeline.items) # Len(info.mediaSegments)
            THEN Min(Len(info.timeline.items), Len(info.mediaSegments))
            ELSE Len(info.mediaSegments)
    IN  SegmentReferencesLoop(periodStart, periodDuration, info, max, 0,
                              info.startTime, <<>>)

ListNotCalled == [done |-> FALSE, error |-> "", references |-> <<>>]

ListIdle == listContext = Null /\ listResult = ListNotCalled

ListInit == listContext \in ListContexts /\ listResult = ListNotCalled

\* SegmentList.createStreamInfo(context, ...): the info it parses and
\* checks, the error it throws and the references it creates.
ListCreateStreamInfo ==
    LET info == parseSegmentListInfo_(listContext)
        error == checkSegmentListInfo_(listContext, info)
    IN  /\ ~listResult.done
        /\ listResult' =
               [done |-> TRUE, error |-> error,
                references |->
                    IF error # "" THEN <<>>
                    ELSE createSegmentReferences_(
                             listContext.periodStart,
                             listContext.periodDuration, info)]
        /\ UNCHANGED <<listContext, tsiVars, ctVars, genVars, tplVars, extVars>>

\* ------------------------------------------ DashMpdParser.parseRepresentation_
\* Nothing of the index, the generator, the template and the list takes part
\* in the run.
LateIdle ==
    frames = Null /\ stream = Null /\ reader = Null /\ operation = Null

CoreIdle == TsiIdle /\ CtIdle /\ GenIdle /\ TplIdle /\ ListIdle

\* What the manifest says in a Representation: its content type, whether it
\* has a SegmentBase (it has no SegmentList and no SegmentTemplate), the
\* second half of its mimeType, whether an Initialization element is
\* inherited, the indexRange attribute, the RepresentationIndex child with
\* its range attribute, and whether an image has a thumbnail tile layout.
\* bound: whether the identifiers assert, logger and shaka, which
\* segment_base.js uses and neither declares nor imports, are bound in the
\* global scope by the embedding program.
RepContexts ==
    [contentType : {ContentType.VIDEO, ContentType.AUDIO, ContentType.TEXT,
                    ContentType.IMAGE, ContentType.APPLICATION},
     segmentBase : BOOLEAN,
     containerType : {"mp4", "webm", "ttml+xml"},
     initialization : BOOLEAN,
     indexRange : {Null, Attr(""), Attr("0-99"), Attr("bytes")},
     representationIndex :
         {Null, [range |-> Null], [range |-> Attr("100-199")],
          [range |-> Attr("bytes")]},
     tiles : BOOLEAN,
     bound : BOOLEAN]

\* TXml.parseRange on the strings of RepContexts: start and end of
\* "start-end", null for anything else.
parseRange(rangeStr) ==
    IF rangeStr = "0-99" THEN [start |-> 0, end |-> 99]
    ELSE IF rangeStr = "100-199" THEN [start |-> 100, end |-> 199]
    ELSE Null

\* SegmentBase.computeIndexRange_: the range of the indexRange attribute,
\* replaced by the range of the RepresentationIndex when that one parses.
computeIndexRange_(context) ==
    LET indexRange ==
            parseRange(IF TruthyAttr(context.indexRange)
                       THEN context.indexRange.value ELSE "")
        representationIndex == context.representationIndex
    IN  IF representationIndex # Null
        THEN IF representationIndex.range # Null
                /\ parseRange(representationIndex.range.value) # Null
             THEN parseRange(representationIndex.range.value)
             ELSE indexRange
        ELSE indexRange

\* SegmentBase.checkSegmentIndexRangeSupport_: the error thrown ("" for
\* none).
checkSegmentIndexRangeSupport_(context) ==
    IF checkSegmentIndexSupport(context) # ""
    THEN checkSegmentIndexSupport(context)
    ELSE IF computeIndexRange_(context) = Null THEN "DASH_NO_SEGMENT_INFO"
    ELSE ""

\* SegmentBase.createStreamInfo: the error thrown ("" when it returns the
\* stream info). The assert of line 65 is a ReferenceError where assert is
\* not bound. No call of requestSegment is made here.
SegmentBaseCreateStreamInfo(context) ==
    IF ~context.bound THEN "ReferenceError"
    ELSE checkSegmentIndexRangeSupport_(context)

\* DashMpdParser.verifyRepresentation_ for a frame with at most a
\* SegmentBase.
verifyRepresentation_(frame) ==
    \/ frame.segmentBase
    \/ frame.contentType \in {ContentType.TEXT, ContentType.APPLICATION}

\* DashMpdParser.parseRepresentation_: outcome "stream" (a Stream is
\* returned), "null" (null is returned) or "throw" (error is thrown);
\* resolver is what SegmentBase.createStreamInfo threw. Error in the catch
\* clause is the builtin, which has no Code: for text and image content the
\* comparison with Error.Code.DASH_NO_SEGMENT_INFO is a TypeError.
parseRepresentation_(context) ==
    LET isText == context.contentType \in
                      {ContentType.TEXT, ContentType.APPLICATION}
        isImage == context.contentType = ContentType.IMAGE
        resolver == IF context.segmentBase
                    THEN SegmentBaseCreateStreamInfo(context) ELSE ""
    IN  IF ~verifyRepresentation_(context)
        THEN [done |-> TRUE, outcome |-> "null", error |-> "",
              resolver |-> "", requests |-> 0]
        ELSE IF resolver # ""
        THEN [done |-> TRUE, outcome |-> "throw",
              error |-> IF isText \/ isImage THEN "TypeError" ELSE resolver,
              resolver |-> resolver, requests |-> 0]
        ELSE IF isImage /\ ~context.tiles
        THEN [done |-> TRUE, outcome |-> "null", error |-> "",
              resolver |-> "", requests |-> 0]
        ELSE [done |-> TRUE, outcome |-> "stream", error |-> "",
              resolver |-> "", requests |-> 0]

RepresentationInit ==
    /\ \E context \in RepContexts :
           representation =
               [context |-> context,
                result |-> [done |-> FALSE, outcome |-> "", error |-> "",
                            resolver |-> "", requests |-> 0]]
    /\ parser = Null /\ cues = Null /\ uri = Null /\ ticker = Null /\ LateIdle
    /\ CoreIdle

\* parseRepresentation_(context, ...).
ParseRepresentation ==
    /\ ~representation.result.done
    /\ representation' =
           [representation EXCEPT
                !.result = parseRepresentation_(representation.context)]
    /\ UNCHANGED <<coreVars, parser, cues, uri, ticker, lateVars>>

\* streamInfo.generateSegmentIndex() of a SegmentBase stream:
\* generateSegmentIndexFromUris requests the index bytes and, for webm, the
\* init segment.
GenerateSegmentIndex ==
    /\ representation.result.outcome = "stream"
    /\ representation.context.segmentBase
    /\ representation.result.requests = 0
    /\ representation' =
           [representation EXCEPT
                !.result.requests =
                    IF representation.context.containerType = "webm"
                    THEN 2 ELSE 1]
    /\ UNCHANGED <<coreVars, parser, cues, uri, ticker, lateVars>>

RepresentationNext == ParseRepresentation \/ GenerateSegmentIndex

\* parseRepresentation_ applied to every Representation of the bounds.
SpecRepresentation == RepresentationInit /\ [][RepresentationNext]_vars


\* ------------------------------------------------------------ DashMpdParser
MaxCalls == 3

\* What the manifest at the URI says: the type and availabilityStartTime
\* attributes of the MPD, mediaPresentationDuration (None for null), one or
\* two Periods with their start and duration attributes as
\* xml_utils.parseDuration returns them, in seconds (None for null), each
\* with one Representation that parses, and whether the Representations have
\* an id.
Mpds ==
    LET periodNodes == [start : {None, 0, 2}, duration : {None, 0, 2}]
    IN  [type : {"static", "dynamic"},
         availabilityStartTime : BOOLEAN,
         mediaPresentationDuration : {None, 4},
         periods : {<<a>> : a \in periodNodes}
                   \cup {<<a, b>> : a \in periodNodes, b \in periodNodes},
         ids : BOOLEAN]

\* The loop of parsePeriods_ (lines 448-553) from Period i on: the info of
\* the Periods parsed. The skip of lines 504-514 needs a Period unseen in the
\* previous parse that starts before the largest start seen, which a second
\* parse of the same manifest has not.
RECURSIVE PeriodsLoop(_, _, _, _, _)
PeriodsLoop(periodNodes, presentationDuration, i, prevEnd, periods) ==
    IF i > Len(periodNodes) THEN periods
    ELSE LET elem == periodNodes[i]
             next == i < Len(periodNodes)
             start == IF elem.start # None THEN elem.start ELSE prevEnd
             derived ==
                 IF next
                 THEN IF periodNodes[i + 1].start # None
                      THEN periodNodes[i + 1].start - start ELSE None
                 ELSE IF presentationDuration # None
                 THEN presentationDuration - start ELSE None
             periodDuration == IF derived = None THEN elem.duration
                               ELSE derived
             info == [start |-> start, duration |-> periodDuration,
                      isLastPeriod |-> periodDuration = None \/ ~next]
         IN  IF periodDuration = None THEN Append(periods, info)
             ELSE PeriodsLoop(periodNodes, presentationDuration, i + 1,
                              start + periodDuration, Append(periods, info))

\* DashMpdParser.parsePeriods_: the periodInfo of every Period parsed.
parsePeriods_(mpd) ==
    PeriodsLoop(mpd.periods, mpd.mediaPresentationDuration, 1, 0, <<>>)

\* SegmentList.createStreamInfo, line 1017: whether the index is fitted.
ListShouldFit(context) == ~context.dynamic \/ ~context.isLastPeriod

\* SegmentBase.generateSegmentIndexFromUris, line 122.
fitLast(context) == ~context.dynamic \/ ~context.isLastPeriod

\* new DashMpdParser(): config_, playerInterface_ and manifest_ are null (TRUE
\* stands for an object), the stream map is empty; streams are the Streams
\* made by parseRepresentation_, with whether streamMap_ holds them and their
\* segmentIndex ("none" for null); timeline is the PresentationTimeline of the
\* last parse; pending: processManifest_ awaits parseUtcTiming_; last is the
\* last call and the error it ended with; calls counts start and stop.
NewParser(mpd) ==
    [mpd |-> mpd, config_ |-> FALSE, playerInterface_ |-> FALSE,
     manifest_ |-> FALSE, periodCombiner_ |-> TRUE, streams |-> <<>>,
     timeline |-> Null, pending |-> FALSE, periods |-> <<>>,
     last |-> [op |-> "new", error |-> ""], calls |-> 0]

ParserInit ==
    /\ \E mpd \in Mpds : parser = NewParser(mpd)
    /\ representation = Null /\ cues = Null /\ uri = Null /\ ticker = Null /\ LateIdle
    /\ CoreIdle

\* configure(config).
Configure ==
    /\ ~parser.config_
    /\ parser' = [parser EXCEPT !.config_ = TRUE,
                                !.last = [op |-> "configure", error |-> ""]]
    /\ UNCHANGED <<coreVars, representation, cues, uri, ticker, lateVars>>

\* new PresentationTimeline(presentationStartTime, ...) after setStatic:
\* usingPresentationStartTime() is whether the start time is not null.
NewTimeline(mpd) ==
    [usingPresentationStartTime |-> mpd.availabilityStartTime,
     static |-> mpd.type = "static", clockOffsetSet |-> FALSE, locks |-> 0]

\* The Streams parseRepresentation_ makes for the Periods parsed (lines
\* 1457-1515): a Stream is put in streamMap_ when the manifest is dynamic
\* and the Representation has an id.
NewStreams(mpd) ==
    [i \in 1..Len(parsePeriods_(mpd)) |->
         [inMap |-> mpd.type # "static" /\ mpd.ids, segmentIndex |-> "none"]]

\* presentationTimeline.lockStartTime().
lockStartTime(timeline) == [timeline EXCEPT !.locks = @ + 1]

\* start(uri, ...): requestManifest_ fetches the manifest, parseManifest_ and
\* processManifest_ run inside its try, and every error ends in its catch
\* (console.error). fetched: whether axios.get resolves. With manifest_ set
\* presentationTimeline stays undefined and setStatic is a TypeError (line
\* 340); with config_ null line 332 is one; with periodCombiner_ null line
\* 389 is one, after parsePeriods_ has made the streams.
Start ==
    /\ ~parser.pending
    /\ parser.calls < MaxCalls
    /\ \E fetched \in BOOLEAN :
           LET mpd == parser.mpd
               called == [parser EXCEPT !.calls = @ + 1]
               timeline == NewTimeline(mpd)
           IN  parser' =
                   IF ~fetched
                   THEN [called EXCEPT
                             !.last = [op |-> "start", error |-> "fetch"]]
                   ELSE IF parser.manifest_ \/ ~parser.config_
                   THEN [called EXCEPT
                             !.last = [op |-> "start", error |-> "TypeError"]]
                   ELSE IF ~parser.periodCombiner_
                   THEN [called EXCEPT
                             !.timeline = timeline,
                             !.periods = parsePeriods_(mpd),
                             !.streams = NewStreams(mpd),
                             !.last = [op |-> "start", error |-> "TypeError"]]
                   ELSE [called EXCEPT
                             !.manifest_ = TRUE,
                             !.periods = parsePeriods_(mpd),
                             !.streams = NewStreams(mpd),
                             !.pending = timeline.usingPresentationStartTime,
                             !.timeline =
                                 IF timeline.usingPresentationStartTime
                                 THEN timeline
                                 ELSE lockStartTime(timeline),
                             !.last = [op |-> "start", error |-> ""]]
    /\ UNCHANGED <<coreVars, representation, cues, uri, ticker, lateVars>>

\* parseUtcTiming_ resolves and processManifest_ goes on at line 412: it
\* returns when playerInterface_ is null, else it sets the clock offset and
\* locks the start time.
UtcTimingResolves ==
    /\ parser.pending
    /\ parser' =
           IF ~parser.playerInterface_
           THEN [parser EXCEPT !.pending = FALSE]
           ELSE [parser EXCEPT
                     !.pending = FALSE,
                     !.timeline =
                         lockStartTime(
                             [parser.timeline EXCEPT
                                  !.clockOffsetSet = TRUE])]
    /\ UNCHANGED <<coreVars, representation, cues, uri, ticker, lateVars>>

\* stream.createSegmentIndex() by the holder of the manifest.
CreateSegmentIndex(i) ==
    /\ parser.manifest_
    /\ parser.streams[i].segmentIndex = "none"
    /\ parser' = [parser EXCEPT !.streams[i].segmentIndex = "index",
                                !.last = [op |-> "createSegmentIndex",
                                          error |-> ""]]
    /\ UNCHANGED <<coreVars, representation, cues, uri, ticker, lateVars>>

\* stop(): the segment index of every stream of streamMap_ is released, the
\* fields are cleared, and line 127 calls destroy on operationManager_, which
\* no line assigns: a TypeError.
Stop ==
    /\ parser.calls < MaxCalls
    /\ parser' =
           [parser EXCEPT
                !.calls = @ + 1,
                !.streams =
                    [i \in 1..Len(parser.streams) |->
                         IF parser.streams[i].inMap
                         THEN [inMap |-> FALSE,
                               segmentIndex |->
                                   IF parser.streams[i].segmentIndex = "none"
                                   THEN "none" ELSE "released"]
                         ELSE parser.streams[i]],
                !.playerInterface_ = FALSE,
                !.config_ = FALSE,
                !.manifest_ = FALSE,
                !.periodCombiner_ = FALSE,
                !.last = [op |-> "stop", error |-> "TypeError"]]
    /\ UNCHANGED <<coreVars, representation, cues, uri, ticker, lateVars>>

ParserNext ==
    \/ Configure
    \/ Start
    \/ UtcTimingResolves
    \/ \E i \in 1..Len(parser.streams) : CreateSegmentIndex(i)
    \/ Stop

\* A DashMpdParser under configure, start and stop, with the manifest of the
\* bounds at its URI.
SpecParser == ParserInit /\ [][ParserNext]_vars


\* --------------------------------------------- WebmSegmentIndexParser.parse
MaxCues == 3

\* The elements of a Cues element: CuePoints with their CueTime and the
\* CueClusterPosition of their CueTrackPositions, and other elements
\* (cuePoint = FALSE), which parseCues_ skips.
CueElements ==
    [cuePoint : {TRUE}, unscaledTime : {0, 1000, 2000},
     relativeOffset : {100, 500}]
    \cup {[cuePoint |-> FALSE, unscaledTime |-> 0, relativeOffset |-> 0]}

RECURSIVE CueSequences(_)
CueSequences(n) ==
    IF n = 0 THEN {<<>>}
    ELSE CueSequences(n - 1)
         \cup {Append(c, e) : c \in {d \in CueSequences(n - 1) :
                                         Len(d) = n - 1},
                              e \in CueElements}

\* What parse is given: the elements of the Cues, and from the init data the
\* offset of the Segment element, the TimecodeScale (nanoseconds per unit)
\* and the Duration (in units); timestampOffset in milliseconds. bound:
\* whether the identifier shaka, which the file uses in line 237 and does not
\* declare, is bound in the global scope to the library.
CuesArgs ==
    [elements : CueSequences(MaxCues),
     segmentOffset : {0, 40},
     timecodeScaleNanoseconds : {1000000, 2000000},
     durationScale : {3000},
     timestampOffset : {0, 10000},
     bound : BOOLEAN]

\* timecodeScale * unscaled of parseInfo_ and parseCues_ (timecodeScale =
\* timecodeScaleNanoseconds / 1000000000), in milliseconds; the scale is a
\* number of microseconds.
Scaled(unscaled, timecodeScaleNanoseconds) ==
    (unscaled * (timecodeScaleNanoseconds \div 1000)) \div 1000

\* The loop of parseCues_ from element i on: the error thrown ("" for none)
\* and the references; lastTime is None for null.
RECURSIVE CuesLoop(_, _, _, _, _)
CuesLoop(args, i, lastTime, lastOffset, refs) ==
    IF i > Len(args.elements)
    THEN [error |-> "",
          references |->
              IF lastTime # None
              THEN Append(refs,
                          [startTime |-> lastTime + args.timestampOffset,
                           endTime |->
                               Scaled(args.durationScale,
                                      args.timecodeScaleNanoseconds)
                               + args.timestampOffset,
                           startByte |-> lastOffset, endByte |-> None])
              ELSE refs]
    ELSE LET elem == args.elements[i]
             currentTime == Scaled(elem.unscaledTime,
                                   args.timecodeScaleNanoseconds)
             currentOffset == args.segmentOffset + elem.relativeOffset
         IN  IF ~elem.cuePoint
             THEN CuesLoop(args, i + 1, lastTime, lastOffset, refs)
             ELSE IF lastTime # None /\ ~args.bound
             THEN [error |-> "ReferenceError", references |-> <<>>]
             ELSE CuesLoop(args, i + 1, currentTime, currentOffset,
                           IF lastTime # None
                           THEN Append(refs,
                                       [startTime |->
                                            lastTime + args.timestampOffset,
                                        endTime |->
                                            currentTime
                                            + args.timestampOffset,
                                        startByte |-> lastOffset,
                                        endByte |-> currentOffset - 1])
                           ELSE refs)

\* WebmSegmentIndexParser.parseCues_.
parseCues_(args) == CuesLoop(args, 1, None, None, <<>>)

CuesInit ==
    /\ \E args \in CuesArgs :
           cues = [args |-> args, done |-> FALSE, error |-> "",
                   references |-> <<>>]
    /\ representation = Null /\ parser = Null /\ uri = Null /\ ticker = Null /\ LateIdle
    /\ CoreIdle

\* WebmSegmentIndexParser.parse(cuesData, initData, ...) on a container with
\* an EBML header, a Segment with an Info with a Duration, and a Cues.
ParseCues ==
    /\ ~cues.done
    /\ cues' = [cues EXCEPT !.done = TRUE,
                            !.error = parseCues_(cues.args).error,
                            !.references = parseCues_(cues.args).references]
    /\ UNCHANGED <<coreVars, representation, parser, uri, ticker, lateVars>>

CuesNext == ParseCues

\* WebmSegmentIndexParser.parse applied to every Cues of the bounds.
SpecCues == CuesInit /\ [][CuesNext]_vars


\* ------------------------------------------------- MpdUtils.fillUriTemplate
MaxItems == 2

\* A string is the sequence of its characters.
LowerDigits ==
    <<"0", "1", "2", "3", "4", "5", "6", "7", "8", "9",
      "a", "b", "c", "d", "e", "f">>
UpperDigits ==
    <<"0", "1", "2", "3", "4", "5", "6", "7", "8", "9",
      "A", "B", "C", "D", "E", "F">>

\* Number.prototype.toString(base) of an integer value >= 0, with the digits
\* of chars.
RECURSIVE Digits(_, _, _)
Digits(value, base, chars) ==
    IF value < base THEN <<chars[value + 1]>>
    ELSE Append(Digits(value \div base, base, chars),
                chars[(value % base) + 1])

\* A template without padding.
PaddingNone(valueString, width) == <<>>

\* Lines 469-471: (new Array(paddingSize + 1)).join("0").
Padding(valueString, width) ==
    [i \in 1..Max(0, width - Len(valueString)) |-> "0"]

\* What fillUriTemplate is given. The template is the sequence of the pieces
\* the regular expression of line 406 cuts it in: text between matches, the
\* match "$$", and a match with an identifier (name "" when the group is
\* absent), a width and a format (width None when the %0 group is absent).
\* representationId is a string or null, the numbers are integers >= 0 or
\* null (None).
UriArgs ==
    LET text == [kind : {"text"}, name : {""}, width : {None},
                 format : {""},
                 chars : {<<"s", "-">>, <<".", "m", "p", "4">>}]
        escape == [kind : {"$$"}, name : {""}, width : {None},
                   format : {""}, chars : {<<"$", "$">>}]
        plain == [kind : {"match"},
                  name : {"RepresentationID", "Number", "Time"},
                  width : {None}, format : {""}, chars : {<<>>}]
        formatted ==
            [kind : {"match"},
             name : {"RepresentationID", "Number", "Time", ""},
             width : {0, 5}, format : {"d", "o", "x", "X"},
             chars : {<<>>}]
        items == text \cup escape \cup plain \cup formatted
        templates ==
            UNION {[1..n -> items] : n \in 0..MaxItems}
    IN  [uriTemplate : templates,
         representationId : {Null, Array(<<>>), Array(<<"v", "1">>)},
         number : {None, 7, 255},
         subNumber : {None},
         bandwidth : {None},
         time : {None, 0}]

\* The text of a match, piece by piece.
MatchText(item) ==
    <<"$", item.name>>
    \o (IF item.width = None THEN <<>>
        ELSE <<"%0", Digits(item.width, 10, LowerDigits), item.format>>)
    \o <<"$">>

\* The replacer of lines 407-474 for one piece: the error thrown ("" for
\* none) and the characters put in its place.
Replace(item, args) ==
    LET name == item.name
        isId == name = "RepresentationID"
        value == IF name = "RepresentationID" THEN args.representationId
                 ELSE IF name = "Number" THEN args.number
                 ELSE IF name = "SubNumber" THEN args.subNumber
                 ELSE IF name = "Bandwidth" THEN args.bandwidth
                 ELSE args.time
        isNull == IF isId THEN value = Null ELSE value = None
        widthStr == IF isId THEN None ELSE item.width
        valueString ==
            IF isId THEN value.items
            ELSE IF item.format = "o" THEN Digits(value, 8, LowerDigits)
            ELSE IF item.format = "x" THEN Digits(value, 16, LowerDigits)
            ELSE IF item.format = "X" THEN Digits(value, 16, UpperDigits)
            ELSE Digits(value, 10, LowerDigits)
        width == IF widthStr = None \/ widthStr = 0 THEN 1 ELSE widthStr
    IN  IF item.kind = "text" THEN [error |-> "", out |-> item.chars]
        ELSE IF item.kind = "$$" THEN [error |-> "", out |-> <<"$">>]
        ELSE IF name = "" THEN [error |-> "AssertionError", out |-> <<>>]
        ELSE IF isNull THEN [error |-> "", out |-> MatchText(item)]
        ELSE [error |-> "",
              out |-> Padding(valueString, width) \o valueString]

\* The strings of a sequence joined.
RECURSIVE Join(_)
Join(pieces) ==
    IF pieces = <<>> THEN <<>> ELSE Head(pieces) \o Join(Tail(pieces))

\* MpdUtils.fillUriTemplate(uriTemplate, representationId, number,
\* subNumber, bandwidth, time): the error thrown, what each piece of the
\* template became, and the uri returned.
fillUriTemplate(args) ==
    LET replaced == [i \in 1..Len(args.uriTemplate) |->
                         Replace(args.uriTemplate[i], args)]
        pieces == [i \in 1..Len(replaced) |-> replaced[i].out]
    IN  IF \E i \in 1..Len(replaced) : replaced[i].error # ""
        THEN [done |-> TRUE, error |-> "AssertionError", pieces |-> <<>>,
              uri |-> <<>>]
        ELSE [done |-> TRUE, error |-> "", pieces |-> pieces,
              uri |-> Join(pieces)]

UriInit ==
    /\ \E args \in UriArgs :
           uri = [args |-> args,
                  result |-> [done |-> FALSE, error |-> "", pieces |-> <<>>,
                              uri |-> <<>>]]
    /\ representation = Null /\ parser = Null /\ cues = Null /\ ticker = Null /\ LateIdle
    /\ CoreIdle

\* fillUriTemplate(uriTemplate, representationId, number, subNumber,
\* bandwidth, time).
FillUriTemplate ==
    /\ ~uri.result.done
    /\ uri' = [uri EXCEPT !.result = fillUriTemplate(uri.args)]
    /\ UNCHANGED <<coreVars, representation, parser, cues, ticker, lateVars>>

UriNext == FillUriTemplate

\* fillUriTemplate applied to every template of the bounds.
SpecUri == UriInit /\ [][UriNext]_vars


\* ------------- generateSegmentIndexFromDuration_: the regeneration callback
\* The latest time the presentation timeline of a run reaches.
MaxClock == 8

\* The contexts the callback is registered for: generation did not throw.
TickContexts ==
    {c \in [periodStart : {0, 1}, duration : {0, 5}, mapDuration : {0},
            segmentDuration : {2, 3}, startNumber : {1},
            dynamic : BOOLEAN, isLive : BOOLEAN, segmentLimit : {1, 2},
            availabilityStart : {0, 1}, availabilityEnd : 1..3] :
        /\ c.availabilityStart <= c.availabilityEnd
        /\ c.isLive => c.dynamic
        /\ ~GenerationAsserts(c)}

\* SegmentIndex.evict(time): the references that end after time stay.
SegmentIndexEvict(refs, time) ==
    SelectSeq(refs, LAMBDA ref : ref.endTime > time)

\* Lines 447-453 with every position of the range built again.
TickReferencesFromMin(context, nextPosition) == GeneratedReferences(context)

\* Lines 447-453: the references of nextPosition..maxPosition.
TickReferences(context, nextPosition) ==
    [i \in 1..(maxPosition(context) - nextPosition + 1) |->
        createReference(context, nextPosition + i - 1)]

\* Lines 455-457 without the test of the availability start.
ReturnsNullWhenEmpty(context, refs) == Len(refs) = 0

\* Lines 455-457: the callback returns null.
ReturnsNull(context, refs) ==
    context.availabilityStart > getPeriodEnd(context) /\ Len(refs) = 0

PositionsOf(refs) == [i \in 1..Len(refs) |-> refs[i].position]

\* The state generateSegmentIndexFromDuration_ returns in: the references of
\* lines 429-434, nextPosition of line 441, the timer registered at line 442
\* when the range can still move.
TickInit ==
    /\ \E c \in TickContexts :
           /\ genContext = c
           /\ genIndex = [generated |-> TRUE, threw |-> FALSE,
                          references |-> GeneratedReferences(c),
                          nextPosition |-> Max(minPosition(c), maxPosition(c) + 1),
                          updating |-> \/ c.availabilityEnd < getPeriodEnd(c)
                                       \/ c.isLive]
           /\ ticker = [numEvicted |-> 0,
                        created |-> PositionsOf(GeneratedReferences(c)),
                        returned |-> "none", appended |-> <<>>]
    /\ TsiIdle /\ CtIdle /\ TplIdle /\ ListIdle
    /\ representation = Null /\ parser = Null /\ cues = Null /\ uri = Null
    /\ LateIdle

\* The wall clock moves the start of the availability window of a dynamic
\* presentation.
AdvanceStart ==
    /\ genContext.dynamic
    /\ \E step \in 1..2 :
           /\ genContext.availabilityStart + step <= genContext.availabilityEnd
           /\ genContext' = [genContext EXCEPT !.availabilityStart = @ + step]
    /\ UNCHANGED <<genIndex, tsiVars, ctVars, tplVars, listVars>>
    /\ UNCHANGED <<representation, parser, cues, uri, ticker, lateVars>>

\* The wall clock moves the end of the availability window of a dynamic
\* presentation.
AdvanceEnd ==
    /\ genContext.dynamic
    /\ \E step \in 1..2 :
           /\ genContext.availabilityEnd + step <= MaxClock
           /\ genContext' = [genContext EXCEPT !.availabilityEnd = @ + step]
    /\ UNCHANGED <<genIndex, tsiVars, ctVars, tplVars, listVars>>
    /\ UNCHANGED <<representation, parser, cues, uri, ticker, lateVars>>

\* A refreshed manifest gives the period another duration:
\* periodDurationMap[periodId] = periodDuration.
SetPeriodDuration(periodDuration) ==
    /\ genContext.mapDuration # periodDuration
    /\ genContext' = [genContext EXCEPT !.mapDuration = periodDuration]
    /\ UNCHANGED <<genIndex, tsiVars, ctVars, tplVars, listVars>>
    /\ UNCHANGED <<representation, parser, cues, uri, ticker, lateVars>>

\* One tick of the timer of segmentIndex.updateEvery (lines 442-460): the
\* callback evicts, builds the references of the new positions and returns
\* them, or null; the index appends what is returned and stops the timer on
\* null.
Tick ==
    LET availabilityStartTime == genContext.availabilityStart
        evicted == SegmentIndexEvict(genIndex.references, availabilityStartTime)
        refs == TickReferences(genContext, genIndex.nextPosition)
        null == ReturnsNull(genContext, refs)
    IN  /\ genIndex.updating
        /\ ticker.returned # "null"
        /\ genIndex' =
               [genIndex EXCEPT
                   !.references = evicted \o refs,
                   !.nextPosition = Max(@, maxPosition(genContext) + 1)]
        /\ ticker' =
               [numEvicted |-> ticker.numEvicted
                                   + Len(genIndex.references) - Len(evicted),
                created |-> ticker.created \o PositionsOf(refs),
                returned |-> IF null THEN "null" ELSE "references",
                appended |-> refs]
        /\ UNCHANGED <<genContext, tsiVars, ctVars, tplVars, listVars>>
        /\ UNCHANGED <<representation, parser, cues, uri, lateVars>>

TickNext ==
    \/ AdvanceStart
    \/ AdvanceEnd
    \/ \E periodDuration \in {4, 6} : SetPeriodDuration(periodDuration)
    \/ Tick

\* The regeneration callback of a fixed-duration index under a moving
\* availability window and a changing period duration.
SpecTick == TickInit /\ [][TickNext]_vars

\* The timer fires every segmentDuration seconds and the wall clock moves
\* the availability window on.
SpecTickFair ==
    /\ SpecTick
    /\ WF_vars(Tick)
    /\ WF_vars(AdvanceStart)
    /\ WF_vars(AdvanceEnd)


\* ------------------------------------------- the inheritance of Segment*
\* The variables of the sections above, and their values when nothing of
\* those sections takes part in the run.
earlyVars == <<coreVars, representation, parser, cues, uri, ticker>>

EarlyIdle ==
    /\ CoreIdle
    /\ representation = Null /\ parser = Null /\ cues = Null /\ uri = Null
    /\ ticker = Null

\* The value of a missing attribute.
Undefined == [undefined |-> TRUE]

Truthy(value) == value # Null /\ value # Undefined /\ value # Attr("")

SegmentTypes == {"segmentBase", "segmentList", "segmentTemplate"}

\* The Segment* children of the element of one level: an element is Null
\* (not declared) or a node with one attribute (missing, empty or the name
\* of the level) and with or without one child.
Elements(level) ==
    {[type \in SegmentTypes |->
          IF type \in declared
          THEN [owner |-> level, attribute |-> attribute, child |-> child]
          ELSE Null] :
         declared \in SUBSET SegmentTypes,
         attribute \in {Undefined, Attr(""), Attr(level)},
         child \in BOOLEAN}

\* Lines 709-720: the parent of the frame of a Period has no Segment*.
NoParent == [type \in SegmentTypes |-> Null]

\* createFrame_(elem, parent, getBaseUris), lines 811-816: each Segment* of
\* the frame is the element's own or else the parent's.
createFrame_(elem, parent) ==
    [type \in SegmentTypes |->
         IF elem[type] # Null THEN elem[type] ELSE parent[type]]

\* The frame verifyRepresentation_ leaves (lines 1554-1566): of several
\* Segment* it keeps the SegmentBase, or else the SegmentList.
VerifiedFrame(frame) ==
    IF frame.segmentBase # Null
    THEN [frame EXCEPT !.segmentList = Null, !.segmentTemplate = Null]
    ELSE IF frame.segmentList # Null
    THEN [frame EXCEPT !.segmentTemplate = Null]
    ELSE frame

\* verifyRepresentation_(frame), lines 1532-1549: its return value.
Verifies(frame, contentType) ==
    \/ \E type \in SegmentTypes : frame[type] # Null
    \/ contentType \in {ContentType.TEXT, ContentType.APPLICATION}

\* MpdUtils.getNodes(context, callback) for the callback that gives the
\* Segment* of a type; the assertion on the Representation holds.
getNodes(context, type) ==
    SelectSeq(<<context.representation[type], context.adaptationSet[type],
                context.period[type]>>,
              LAMBDA node : node # Null)

\* The loops of inheritAttribute and inheritChild: the first found value, or
\* what the last node gave.
RECURSIVE FirstFound(_, _)
FirstFound(values, result) ==
    IF values = <<>> THEN result
    ELSE IF Truthy(Head(values)) THEN Head(values)
    ELSE FirstFound(Tail(values), Head(values))

\* MpdUtils.inheritAttribute(context, callback, attribute).
inheritAttribute(context, type) ==
    LET nodes == getNodes(context, type)
    IN  FirstFound([i \in 1..Len(nodes) |-> nodes[i].attribute], Null)

\* MpdUtils.inheritChild(context, callback, child): xml_utils.findChild
\* gives the child (here the level that declares it) or null.
inheritChild(context, type) ==
    LET nodes == getNodes(context, type)
    IN  FirstFound([i \in 1..Len(nodes) |->
                        IF nodes[i].child THEN Attr(nodes[i].owner) ELSE Null],
                   Null)

NotInherited ==
    [done |-> FALSE, usable |-> FALSE, type |-> "", node |-> Null,
     attribute |-> Null, child |-> Null]

InheritInit ==
    /\ \E period \in Elements("Period") :
       \E adaptationSet \in Elements("AdaptationSet") :
       \E node \in Elements("Representation") :
       \E contentType \in {ContentType.VIDEO, ContentType.TEXT} :
           frames = [period |-> period, adaptationSet |-> adaptationSet,
                     representation |-> node, contentType |-> contentType,
                     result |-> NotInherited]
    /\ stream = Null /\ reader = Null /\ operation = Null
    /\ EarlyIdle

\* parsePeriod_, parseAdaptationSet_ and parseRepresentation_ make the three
\* frames (lines 593, 960, 1279); verifyRepresentation_ leaves one Segment*
\* in the frame of the Representation, and the resolver of that Segment*
\* looks an attribute and a child up through the frames.
InheritSegmentInfo ==
    LET period == createFrame_(frames.period, NoParent)
        adaptationSet == createFrame_(frames.adaptationSet, period)
        frame == createFrame_(frames.representation, adaptationSet)
        context == [period |-> period, adaptationSet |-> adaptationSet,
                    representation |-> VerifiedFrame(frame)]
        used == {type \in SegmentTypes : context.representation[type] # Null}
    IN  /\ ~frames.result.done
        /\ frames' =
               [frames EXCEPT !.result =
                    IF ~Verifies(frame, frames.contentType) \/ used = {}
                    THEN [NotInherited EXCEPT
                              !.done = TRUE,
                              !.usable = Verifies(frame, frames.contentType)]
                    ELSE LET type == CHOOSE type \in used : TRUE
                         IN  [done |-> TRUE, usable |-> TRUE, type |-> type,
                              node |-> context.representation[type],
                              attribute |-> inheritAttribute(context, type),
                              child |-> inheritChild(context, type)]]
        /\ UNCHANGED <<earlyVars, stream, reader, operation>>

InheritNext == InheritSegmentInfo

\* The inheritance of the Segment* elements of every Period, AdaptationSet
\* and Representation of the bounds.
SpecInherit == InheritInit /\ [][InheritNext]_vars


\* -------------------------------------------- stream.createSegmentIndex
\* The callers of createSegmentIndex of one stream.
NumCallers == 3
Callers == 1..NumCallers

NoIndex == 0

\* A stream after parseRepresentation_: its stream info generates the index
\* from a duration (a new SegmentIndex at every call, with a timer when the
\* index needs updates) or hands out the one TimelineSegmentIndex that
\* createStreamInfo made (index 1; a dynamic stream holds it already).
StreamInit ==
    /\ \E kind \in {"duration", "timeline"} :
       \E dynamic \in BOOLEAN :
           stream = [kind |-> kind, dynamic |-> dynamic,
                     segmentIndex |->
                         IF kind = "timeline" /\ dynamic THEN 1 ELSE NoIndex,
                     pc |-> [c \in Callers |-> "idle"],
                     awaited |-> [c \in Callers |-> NoIndex],
                     generations |-> 0,
                     created |-> IF kind = "timeline" THEN 1 ELSE 0,
                     timers |-> {},
                     released |-> {}]
    /\ frames = Null /\ reader = Null /\ operation = Null
    /\ EarlyIdle

\* streamInfo.generateSegmentIndex(): the stream after the call; the index
\* the call resolves with is the last one created.
generateSegmentIndex(s) ==
    IF s.kind = "duration"
    THEN [s EXCEPT !.generations = @ + 1,
                   !.created = @ + 1,
                   !.timers = IF s.dynamic THEN @ \cup {s.created + 1} ELSE @]
    ELSE [s EXCEPT !.generations = @ + 1, !.released = @ \ {1}]

\* A call of stream.createSegmentIndex() up to its await: the test of
\* stream.segmentIndex and the call of generateSegmentIndex.
CreateSegmentIndexCall(c) ==
    /\ stream.pc[c] = "idle"
    /\ stream' =
           IF stream.segmentIndex # NoIndex
           THEN [stream EXCEPT !.pc[c] = "done"]
           ELSE LET s == generateSegmentIndex(stream)
                IN  [s EXCEPT !.pc[c] = "awaiting", !.awaited[c] = s.created]
    /\ UNCHANGED <<earlyVars, frames, reader, operation>>

\* The continuation of the call after the await: the assignment to
\* stream.segmentIndex.
CreateSegmentIndexResume(c) ==
    /\ stream.pc[c] = "awaiting"
    /\ stream' = [stream EXCEPT !.pc[c] = "done",
                                !.segmentIndex = stream.awaited[c]]
    /\ UNCHANGED <<earlyVars, frames, reader, operation>>

\* stream.closeSegmentIndex(): the index of the stream is released, which
\* stops its timer.
CloseSegmentIndex ==
    /\ stream.segmentIndex # NoIndex
    /\ stream' = [stream EXCEPT !.segmentIndex = NoIndex,
                                !.timers = @ \ {stream.segmentIndex},
                                !.released = @ \cup {stream.segmentIndex}]
    /\ UNCHANGED <<earlyVars, frames, reader, operation>>

StreamNext ==
    \/ \E c \in Callers : CreateSegmentIndexCall(c)
    \/ \E c \in Callers : CreateSegmentIndexResume(c)
    \/ CloseSegmentIndex

\* The calls of createSegmentIndex and closeSegmentIndex of one stream, in
\* every order the event loop allows.
SpecStream == StreamInit /\ [][StreamNext]_vars

\* ------------------------------------------------------- DataViewReader
\* The buffers read have at most MaxBytes bytes, each 0 or 64: a uint32 of
\* such bytes stays below 2^31, and a high word with a byte 64 in its upper
\* three bytes exceeds 0x1FFFFF.
MaxBytes == 8
ByteValues == {0, 64}

Buffers == UNION {[1..n -> ByteValues] : n \in 0..MaxBytes}

\* The arguments of readBytes, skip, rewind and seek.
Amounts == -1..(MaxBytes + 1)

RECURSIVE BigEndian(_)
BigEndian(bytes) ==
    IF bytes = <<>> THEN 0
    ELSE BigEndian(SubSeq(bytes, 1, Len(bytes) - 1)) * 256 + bytes[Len(bytes)]

Reversed(bytes) == [i \in 1..Len(bytes) |-> bytes[Len(bytes) + 1 - i]]

\* DataView.prototype.getUint8/16/32: a RangeError when the bytes are not
\* all inside the view.
InView(r, position, size) ==
    position >= 0 /\ position + size <= Len(r.data)

GetUint(r, position, size, littleEndian) ==
    LET bytes == SubSeq(r.data, position + 1, position + size)
    IN  BigEndian(IF littleEndian THEN Reversed(bytes) ELSE bytes)

\* What a method gives: the position it leaves, the error it throws ("" when
\* it returns) and the value it returns.
Outcome(position, error, value) ==
    [position_ |-> position, error |-> error, value |-> value]

outOfBounds_(r) == Outcome(r.position_, "BUFFER_READ_OUT_OF_BOUNDS", Null)

\* readUint8, readUint16, readUint32 (and readInt32: no byte has its top bit
\* set) for the size 1, 2, 4.
readUint(r, size) ==
    IF InView(r, r.position_, size)
    THEN Outcome(r.position_ + size, "",
                 [number |-> GetUint(r, r.position_, size, r.littleEndian_)])
    ELSE outOfBounds_(r)

\* readUint64(); new shaka.util.Error is a ReferenceError where no global
\* shaka is defined.
readUint64(r) ==
    IF ~InView(r, r.position_, 8) THEN outOfBounds_(r)
    ELSE LET first == GetUint(r, r.position_, 4, r.littleEndian_)
             second == GetUint(r, r.position_ + 4, 4, r.littleEndian_)
             low == IF r.littleEndian_ THEN first ELSE second
             high == IF r.littleEndian_ THEN second ELSE first
         IN  IF high > 2097151
             THEN Outcome(r.position_,
                          IF r.shaka THEN "JS_INTEGER_OVERFLOW"
                          ELSE "ReferenceError", Null)
             ELSE Outcome(r.position_ + 8, "", [high |-> high, low |-> low])

readBytes(r, bytes) ==
    IF bytes < 0 THEN Outcome(r.position_, "AssertionError", Null)
    ELSE IF r.position_ + bytes > Len(r.data) THEN outOfBounds_(r)
    ELSE Outcome(r.position_ + bytes, "",
                 Array(SubSeq(r.data, r.position_ + 1, r.position_ + bytes)))

skip(r, bytes) ==
    IF bytes < 0 THEN Outcome(r.position_, "AssertionError", Null)
    ELSE IF r.position_ + bytes > Len(r.data) THEN outOfBounds_(r)
    ELSE Outcome(r.position_ + bytes, "", Null)

rewind(r, bytes) ==
    IF bytes < 0 THEN Outcome(r.position_, "AssertionError", Null)
    ELSE IF r.position_ < bytes THEN outOfBounds_(r)
    ELSE Outcome(r.position_ - bytes, "", Null)

seek(r, position) ==
    IF position < 0 THEN Outcome(r.position_, "AssertionError", Null)
    ELSE IF position > Len(r.data) THEN outOfBounds_(r)
    ELSE Outcome(position, "", Null)

\* The loop of readTerminatedString: the position of the first zero byte at
\* or after the position, or the end of the data.
RECURSIVE Terminator(_, _)
Terminator(r, position) ==
    IF position < Len(r.data) /\ r.data[position + 1] # 0
    THEN Terminator(r, position + 1) ELSE position

\* readTerminatedString(): the loop moves the position, then
\* shaka.util.BufferUtils is read (a ReferenceError where no global shaka is
\* defined), then the terminator is skipped.
readTerminatedString(r) ==
    LET end == Terminator(r, r.position_)
    IN  IF ~r.shaka THEN Outcome(end, "ReferenceError", Null)
        ELSE Outcome(end + 1, "",
                     Array(SubSeq(r.data, r.position_ + 1, end)))

ReaderInit ==
    /\ \E data \in Buffers :
       \E littleEndian \in BOOLEAN :
       \E shaka \in BOOLEAN :
           reader = [data |-> data, littleEndian_ |-> littleEndian,
                     shaka |-> shaka, position_ |-> 0,
                     op |-> "none", error |-> "", value |-> Null]
    /\ frames = Null /\ stream = Null /\ operation = Null
    /\ EarlyIdle

\* The reader after a call of the method op with the outcome given.
Called(op, outcome) ==
    [reader EXCEPT !.position_ = outcome.position_, !.op = op,
                   !.error = outcome.error, !.value = outcome.value]

ReadUint8 ==
    /\ reader' = Called("readUint8", readUint(reader, 1))
    /\ UNCHANGED <<earlyVars, frames, stream, operation>>

ReadUint16 ==
    /\ reader' = Called("readUint16", readUint(reader, 2))
    /\ UNCHANGED <<earlyVars, frames, stream, operation>>

ReadUint32 ==
    /\ reader' = Called("readUint32", readUint(reader, 4))
    /\ UNCHANGED <<earlyVars, frames, stream, operation>>

ReadInt32 ==
    /\ reader' = Called("readInt32", readUint(reader, 4))
    /\ UNCHANGED <<earlyVars, frames, stream, operation>>

ReadUint64 ==
    /\ reader' = Called("readUint64", readUint64(reader))
    /\ UNCHANGED <<earlyVars, frames, stream, operation>>

ReadBytes(bytes) ==
    /\ reader' = Called("readBytes", readBytes(reader, bytes))
    /\ UNCHANGED <<earlyVars, frames, stream, operation>>

Skip(bytes) ==
    /\ reader' = Called("skip", skip(reader, bytes))
    /\ UNCHANGED <<earlyVars, frames, stream, operation>>

Rewind(bytes) ==
    /\ reader' = Called("rewind", rewind(reader, bytes))
    /\ UNCHANGED <<earlyVars, frames, stream, operation>>

Seek(position) ==
    /\ reader' = Called("seek", seek(reader, position))
    /\ UNCHANGED <<earlyVars, frames, stream, operation>>

\* The position grows by one at every call past the end of the data: the
\* calls are followed up to one byte past the end.
ReadTerminatedString ==
    /\ reader.position_ <= Len(reader.data)
    /\ reader' = Called("readTerminatedString", readTerminatedString(reader))
    /\ UNCHANGED <<earlyVars, frames, stream, operation>>

ReaderNext ==
    \/ ReadUint8 \/ ReadUint16 \/ ReadUint32 \/ ReadInt32 \/ ReadUint64
    \/ \E bytes \in Amounts : ReadBytes(bytes)
    \/ \E bytes \in Amounts : Skip(bytes)
    \/ \E bytes \in Amounts : Rewind(bytes)
    \/ \E position \in Amounts : Seek(position)
    \/ ReadTerminatedString

\* Every sequence of calls on a reader over every buffer of the bounds.
SpecReader == ReaderInit /\ [][ReaderNext]_vars

\* --------------------------------------------------- AbortableOperation
\* The number of calls of abort() followed on each operation.
MaxAborts == 2

abortError == "OPERATION_ABORTED"

\* How the underlying promise may settle: with a value, with the abort
\* error, or with another error.
Settlements ==
    {[state |-> "resolved", error |-> ""],
     [state |-> "rejected", error |-> abortError],
     [state |-> "rejected", error |-> "NETWORK_ERROR"]}

\* An operation op over a pending promise and op.chain(onSuccess, onError):
\* onSuccess is given or not; onError is not given, returns a value or
\* throws the error it is given.  The handler onAbort_ of op returns a
\* promise.
OperationInit ==
    /\ \E onSuccess \in BOOLEAN :
       \E onError \in {"none", "returns", "throws"} :
           operation =
               [promise |-> [state |-> "pending", error |-> ""],
                aborted_ |-> FALSE,
                onAbortCalls |-> 0,
                abortCalls |-> 0,
                onSuccess |-> onSuccess,
                onError |-> onError,
                chained |-> [promise |-> [state |-> "pending", error |-> ""],
                             aborted_ |-> FALSE,
                             aborted |-> FALSE,
                             abortCalls |-> 0,
                             onAbortCalls |-> 0],
                reacted |-> FALSE,
                onSuccessCalls |-> 0,
                onErrorCalls |-> 0,
                abortedWhilePending |-> FALSE]
    /\ frames = Null /\ stream = Null /\ reader = Null
    /\ EarlyIdle

\* abort() of lines 30-33 on the operation o: the state of o after it.
abort(o) == [o EXCEPT !.aborted_ = TRUE, !.onAbortCalls = @ + 1]

\* op.abort()
Abort ==
    /\ operation.abortCalls < MaxAborts
    /\ operation' =
           [abort(operation) EXCEPT
                !.abortCalls = @ + 1,
                !.abortedWhilePending =
                    @ \/ operation.promise.state = "pending"]
    /\ UNCHANGED <<earlyVars, frames, stream, reader>>

\* The handler onAbort of lines 82-88: op.abort() on its first call.
onAbort(o) ==
    IF ~o.chained.aborted
    THEN [abort(o) EXCEPT !.chained.aborted = TRUE]
    ELSE o

\* op.chain(onSuccess, onError).abort()
AbortChained ==
    /\ operation.chained.abortCalls < MaxAborts
    /\ operation' =
           [onAbort(operation) EXCEPT
                !.chained.aborted_ = TRUE,
                !.chained.onAbortCalls = @ + 1,
                !.chained.abortCalls = @ + 1,
                !.abortedWhilePending =
                    @ \/ operation.promise.state = "pending"]
    /\ UNCHANGED <<earlyVars, frames, stream, reader>>

\* The underlying promise settles.
Settle(settlement) ==
    /\ operation.promise.state = "pending"
    /\ operation' = [operation EXCEPT !.promise = settlement]
    /\ UNCHANGED <<earlyVars, frames, stream, reader>>

\* Lines 49-62: the reaction of chain to a value.
OnFulfilled(o) ==
    IF o.aborted_
    THEN [o EXCEPT !.chained.promise =
                       [state |-> "rejected", error |-> abortError]]
    ELSE [o EXCEPT !.chained.promise = [state |-> "resolved", error |-> ""],
                   !.onSuccessCalls = IF o.onSuccess THEN @ + 1 ELSE @]

\* Lines 63-78: the reaction of chain to an error.
OnRejected(o) ==
    IF o.onError = "none"
    THEN [o EXCEPT !.chained.promise = o.promise]
    ELSE [o EXCEPT !.onErrorCalls = @ + 1,
                   !.chained.promise =
                       IF o.onError = "returns"
                       THEN [state |-> "resolved", error |-> ""]
                       ELSE o.promise]

\* The reaction that runs once the promise is settled.
React ==
    /\ operation.promise.state # "pending"
    /\ ~operation.reacted
    /\ operation' =
           [(IF operation.promise.state = "resolved"
             THEN OnFulfilled(operation) ELSE OnRejected(operation))
            EXCEPT !.reacted = TRUE]
    /\ UNCHANGED <<earlyVars, frames, stream, reader>>

OperationNext ==
    \/ Abort
    \/ AbortChained
    \/ \E settlement \in Settlements : Settle(settlement)
    \/ React

\* An operation and the operation chained to it, aborted and settled in
\* every order.
SpecOperation == OperationInit /\ [][OperationNext]_vars

\* -------------------------------------------------------- specifications
\* Nothing of the manifest parser takes part in the run.
ExtIdle ==
    /\ representation = Null /\ parser = Null /\ cues = Null /\ uri = Null
    /\ ticker = Null
    /\ LateIdle

Init == TsiInit /\ CtIdle /\ GenIdle /\ TplIdle /\ ListIdle /\ ExtIdle

Next == TsiNext

\* The TimelineSegmentIndex under get, find, evict, release and
\* appendTemplateInfo.
Spec == Init /\ [][Next]_vars

TimelineInit == CtInit /\ TsiIdle /\ GenIdle /\ TplIdle /\ ListIdle /\ ExtIdle

TimelineNext == CreateTimeline

\* MpdUtils.createTimeline applied to every S sequence of the bounds.
SpecTimeline == TimelineInit /\ [][TimelineNext]_vars

DurationInit == GenInit /\ TsiIdle /\ CtIdle /\ TplIdle /\ ListIdle /\ ExtIdle

DurationNext == GenerateSegmentIndexFromDuration

\* The fixed-duration generator applied to every context of the bounds.
SpecDuration == DurationInit /\ [][DurationNext]_vars

TemplateInit == TplInit /\ TsiIdle /\ CtIdle /\ GenIdle /\ ListIdle /\ ExtIdle

TemplateNext == TemplateCreateStreamInfo

\* SegmentTemplate.createStreamInfo applied to every SegmentTemplate of the
\* bounds.
SpecTemplate == TemplateInit /\ [][TemplateNext]_vars

ListSpecInit == ListInit /\ TsiIdle /\ CtIdle /\ GenIdle /\ TplIdle /\ ExtIdle

ListSpecNext == ListCreateStreamInfo

\* SegmentList.createStreamInfo applied to every SegmentList of the bounds.
SpecList == ListSpecInit /\ [][ListSpecNext]_vars

\* ---------------------------------------------------------------- claims
\* The reference get(position) would return in the current state.
WouldGet(position) == getRef(Self, position, 0)

InRange(position) ==
    /\ position >= numEvicted_
    /\ position - numEvicted_ < getNumReferences(Self)

Populated == templateInfo_ # Null /\ Len(templateInfo_.timeline) > 0

\* C1: when evict(t) removes k > 0 leading entries, every position
\* p >= old numEvicted + k that is in range after the eviction yields the
\* same segment (same start time, same segmentPosition) from get(p) after the
\* eviction as before it.
C1_PositionStability ==
    [][(ret'.op = "evict" /\ ret'.val > 0) =>
          \A p \in Positions :
              (p >= numEvicted_ + ret'.val /\ InRange(p)') =>
                  /\ WouldGet(p) # Null
                  /\ WouldGet(p)' # Null
                  /\ WouldGet(p)'.startTime = WouldGet(p).startTime
                  /\ WouldGet(p)'.segmentPosition = WouldGet(p).segmentPosition
      ]_vars

\* C2: a get(p) that follows an earlier get(p), with no evict and no release
\* in between, returns the object the earlier call returned and constructs
\* no reference.
C2_GetIdempotent ==
    [][(ret'.op = "get" /\ ret'.val # Null) =>
          \A h \in handedOut :
              h[1] = ret'.arg =>
                  /\ ret'.val.id = h[2]
                  /\ nextRefId' = nextRefId
      ]_vars

\* A second get of a position, on an index nothing was evicted from, released
\* or appended to, after a reference for another position was constructed.
C2_Witness ==
    /\ ret.op = "get"
    /\ ret.val # Null
    /\ ret.val.id = 1
    /\ nextRefId = 2
    /\ numEvicted_ = 0
    /\ numUpdates = 0
    /\ <<ret.arg, 1>> \in handedOut

Released ==
    /\ templateInfo_ = Null
    /\ getNumReferences(Self) = 0
    /\ \A p \in Positions : getRef(Self, p, 0) = Null
    /\ \A t \in Times : find(Self, t) = None

\* C5: an evict that removes every remaining timeline entry leaves the index
\* released (no reference, get and find answer null everywhere), and a
\* release or an evict on a released index changes nothing.
C5_EvictAllReleases ==
    [][/\ (/\ ret'.op = "evict"
           /\ templateInfo_ # Null
           /\ ret'.val > 0
           /\ ret'.val = Len(templateInfo_.timeline)) => Released'
       /\ (templateInfo_ = Null /\ ret'.op \in {"release", "evict"}) =>
              /\ UNCHANGED <<templateInfo_, numEvicted_, periodStart_,
                             periodEnd_>>
              /\ Released'
      ]_vars

\* An evict has removed the last entries of the index.
C5_Witness ==
    /\ ret.op = "evict"
    /\ ret.val > 0
    /\ templateInfo_ = Null
    /\ numEvicted_ >= 2

\* C6: on a populated index, find(time) for a time before the start of the
\* first surviving entry returns numEvicted.
C6_FindBeforeFirst ==
    (/\ ret.op = "find"
     /\ Populated
     /\ ret.arg < templateInfo_.timeline[1].start + periodStart_)
        => ret.val = numEvicted_

\* A find before the first surviving entry of an index that has evicted.
C6_Witness ==
    /\ ret.op = "find"
    /\ Populated
    /\ ret.arg < templateInfo_.timeline[1].start + periodStart_
    /\ numEvicted_ > 0

OutsidePeriod(time) == time < periodStart_ \/ time >= periodEnd_

\* C7 as stated: find(time) is null for every time outside
\* [periodStart, periodEnd).
C7_FindOutsidePeriod ==
    (ret.op = "find" /\ OutsidePeriod(ret.arg)) => ret.val = None

\* C7 amended: find(time) is null for every time outside
\* [periodStart, periodEnd) that is not before the start of the first
\* surviving entry.
C7_FindOutsidePeriodNotBeforeFirst ==
    (/\ ret.op = "find"
     /\ OutsidePeriod(ret.arg)
     /\ (Populated => ret.arg >= templateInfo_.timeline[1].start + periodStart_))
        => ret.val = None

\* A find at or after the period end on a populated index, not before its
\* first entry.
C7_Witness ==
    /\ ret.op = "find"
    /\ Populated
    /\ ret.arg >= periodEnd_
    /\ ret.arg >= templateInfo_.timeline[1].start + periodStart_
    /\ ret.val = None

\* C8: every reference get returns has startTime < endTime.
C8_StartBeforeEnd ==
    (ret.op = "get" /\ ret.val # Null) => ret.val.startTime < ret.val.endTime

\* C3: the timeline createTimeline returns is contiguous (the end of every
\* entry is the start of the next) and entry i (from 0) has segmentPosition
\* i + startNumber.
C3_TimelineContiguous ==
    ctResult.done =>
        LET timeline == ctResult.timeline
        IN  /\ \A i \in 1..(Len(timeline) - 1) :
                   timeline[i].end = timeline[i + 1].start
            /\ \A i \in 1..Len(timeline) :
                   timeline[i].segmentPosition = (i - 1) + ctArgs.startNumber

\* A timeline of three entries or more, one of them compressed by an
\* overlapping S element, with a presentationTimeOffset.
C3_Witness ==
    /\ ctResult.done
    /\ ctArgs.pto > 0
    /\ Len(ctResult.timeline) >= 3
    /\ \E i \in 1..Len(ctResult.timeline) :
           ctResult.timeline[i].end < ctResult.timeline[i].start

\* C4: for a static manifest the fixed-duration generator creates exactly the
\* positions ceil((a - ps) / d) + s .. ceil((e - ps) / d) - 1 + s of the
\* available range [a, e), in order; each reference starts at
\* ps + (position - s) * d, has trueEndTime = startTime + d and
\* endTime = min(trueEndTime, period end), so that only the last one can be
\* clipped; d = 4 s, s = 1 and [0, 10 s) give the positions 1, 2, 3.
C4_FixedDurationPositions ==
    (genIndex.generated /\ ~genContext.dynamic) =>
        LET ps == genContext.periodStart
            d == genContext.segmentDuration
            s == genContext.startNumber
            periodDuration == IF genContext.mapDuration # 0
                              THEN genContext.mapDuration
                              ELSE genContext.duration
            periodEnd == IF periodDuration # 0 THEN ps + periodDuration
                         ELSE Infinity
            a == Max(genContext.availabilityStart, ps)
            e == Min(genContext.availabilityEnd, periodEnd)
            first == Ceil(a - ps, d) + s
            last == Ceil(e - ps, d) - 1 + s
            refs == genIndex.references
        IN  /\ ~genIndex.threw
            /\ Len(refs) = Max(0, last - first + 1)
            /\ \A i \in 1..Len(refs) :
                   /\ refs[i].position = first + i - 1
                   /\ refs[i].startTime = ps + (refs[i].position - s) * d
                   /\ refs[i].trueEndTime = refs[i].startTime + d
                   /\ refs[i].endTime = Min(refs[i].trueEndTime, periodEnd)
                   /\ i < Len(refs) => refs[i].endTime = refs[i].trueEndTime
            /\ (/\ d = 8 /\ s = 1 /\ ps = 0
                /\ genContext.availabilityStart = 0
                /\ e = 20) =>
                   /\ Len(refs) = 3
                   /\ \A i \in 1..3 : refs[i].position = i

\* The example of a segment duration of 4 s, start number 1 and the window
\* [0, 10 s): three references, the last one clipped to the period end.
C4_Witness ==
    /\ genIndex.generated
    /\ ~genContext.dynamic
    /\ genContext.segmentDuration = 8
    /\ genContext.startNumber = 1
    /\ genContext.periodStart = 0
    /\ genContext.availabilityStart = 0
    /\ genContext.availabilityEnd = 20
    /\ Len(genIndex.references) = 3
    /\ genIndex.references[3].endTime = 20
    /\ genIndex.references[3].trueEndTime = 24

\* C9: without an index template, a timeline and a segment duration
\* createStreamInfo fails with DASH_NO_SEGMENT_INFO; with more than one of
\* them exactly one survives, the index template before the timeline before
\* the duration; without an index template and without a media template it
\* fails with DASH_NO_SEGMENT_INFO; and the branch it takes is that of the
\* surviving source.
C9_SourceSelection ==
    tplResult.done =>
        LET index == TruthyAttr(tplContext.index)
            timeline == tplContext.timelineNode # Null
            duration == tplContext.duration # None
            media == TruthyAttr(tplContext.media)
            info == tplResult.info
            survivor == IF index THEN "index"
                        ELSE IF timeline THEN "timeline" ELSE "duration"
        IN  /\ (~index /\ ~timeline /\ ~duration) =>
                   tplResult.error = "DASH_NO_SEGMENT_INFO"
            /\ (index \/ timeline \/ duration) =>
                   /\ TruthyAttr(info.indexTemplate) <=> survivor = "index"
                   /\ info.timeline # Null <=> survivor = "timeline"
                   /\ TruthyNumber(info.segmentDuration)
                          <=> survivor = "duration"
            /\ (~index /\ ~media) => tplResult.error = "DASH_NO_SEGMENT_INFO"
            /\ ((index \/ timeline \/ duration) /\ (index \/ media)) =>
                   /\ tplResult.error # "DASH_NO_SEGMENT_INFO"
                   /\ tplResult.path = survivor

\* A SegmentTemplate with a timeline and a duration, and a media template:
\* the timeline path is taken.
C9_Witness ==
    /\ tplResult.done
    /\ ~TruthyAttr(tplContext.index)
    /\ tplContext.timelineNode # Null
    /\ tplContext.duration # None
    /\ tplResult.error = ""
    /\ tplResult.path = "timeline"
    /\ tplResult.info.segmentDuration = None

C11_SegmentBaseAcceptance ==
    (/\ representation.result.done
     /\ representation.context.segmentBase) =>
        LET context == representation.context
            resolver == representation.result.resolver
            hasRange == computeIndexRange_(context) # Null
            exempt == context.contentType \in
                          {ContentType.TEXT, ContentType.APPLICATION}
            container == exempt \/ context.containerType \in {"mp4", "webm"}
            init == context.containerType = "webm" => context.initialization
        IN  /\ resolver = "" <=> (hasRange /\ container /\ init)
            /\ resolver \in {"", "DASH_NO_SEGMENT_INFO",
                             "DASH_UNSUPPORTED_CONTAINER",
                             "DASH_WEBM_MISSING_INIT"}
            /\ resolver = "DASH_NO_SEGMENT_INFO" => ~hasRange
            /\ resolver = "DASH_UNSUPPORTED_CONTAINER" => ~container
            /\ resolver = "DASH_WEBM_MISSING_INIT" => ~init
            /\ resolver # "" => representation.result.requests = 0

\* C12 as stated: when the resolver fails with DASH_NO_SEGMENT_INFO or
\* DASH_UNSUPPORTED_CONTAINER, parseRepresentation_ returns null for text,
\* application and image content and throws that error for audio and video.
C12_TextImageDowngrade ==
    (/\ representation.result.done
     /\ representation.result.resolver \in
            {"DASH_NO_SEGMENT_INFO", "DASH_UNSUPPORTED_CONTAINER"}) =>
        IF representation.context.contentType \in
               {ContentType.TEXT, ContentType.APPLICATION, ContentType.IMAGE}
        THEN representation.result.outcome = "null"
        ELSE /\ representation.result.outcome = "throw"
             /\ representation.result.error = representation.result.resolver

\* C13 as stated: once the first processManifest_ has completed and the
\* manifest is set, the start time of its timeline has been locked exactly
\* once, for live as for VOD manifests; a timeline that uses a presentation
\* start time is locked only with the clock offset applied; and no timeline
\* is locked twice.
C13_LockStartTimeOnce ==
    parser.timeline # Null =>
        /\ parser.timeline.locks <= 1
        /\ (/\ parser.timeline.locks = 1
            /\ parser.timeline.usingPresentationStartTime) =>
               parser.timeline.clockOffsetSet
        /\ (parser.manifest_ /\ ~parser.pending) => parser.timeline.locks = 1

\* C14 as stated: when stop() has returned, it raised no error, the manifest
\* and the stream map are cleared and no stream of the stream map is left
\* with an unreleased segment index.
C14_StopTeardown ==
    parser.last.op = "stop" =>
        /\ parser.last.error = ""
        /\ ~parser.manifest_
        /\ \A i \in 1..Len(parser.streams) :
               /\ ~parser.streams[i].inMap
               /\ parser.streams[i].segmentIndex = "index" =>
                      (parser.mpd.type = "static" \/ ~parser.mpd.ids)

\* C20 as stated: for every Period that parsePeriods_ hands on, the three
\* addressing modes decide alike; the index is fitted for a static manifest
\* and for a dynamic Period not marked last, and not fitted for a dynamic
\* Period marked last; and a dynamic Period without a duration or with an
\* infinite period end is marked last and not fitted.
C20_ShouldFitTable ==
    \A i \in 1..Len(parser.periods) :
        LET info == parser.periods[i]
            context == [dynamic |-> parser.mpd.type # "static",
                        isLastPeriod |-> info.isLastPeriod]
            periodEnd == IF TruthyNumber(info.duration)
                         THEN info.start + info.duration ELSE Infinity
            fit == ShouldFit(context)
        IN  /\ ListShouldFit(context) = fit
            /\ fitLast(context) = fit
            /\ ~context.dynamic => fit
            /\ (context.dynamic /\ ~info.isLastPeriod) => fit
            /\ (context.dynamic /\ info.isLastPeriod) => ~fit
            /\ (context.dynamic
                /\ (info.duration = None \/ periodEnd = Infinity)) =>
                   (info.isLastPeriod /\ ~fit)

\* The CuePoints among the elements of a Cues, in order.
CuePointsOf(elements) == SelectSeq(elements, LAMBDA e : e.cuePoint)

\* C15: for N >= 1 CuePoints with times t and offsets o, parse returns N
\* references in order; reference i < N spans the scaled times [t_i, t_(i+1))
\* and the bytes from o_i to o_(i+1) - 1, the last one starts at t_N, ends
\* at the Duration and has a null end byte (times taken from the timestamp
\* offset, bytes from the offset of the Segment element).
C15_CuesReferences ==
    (cues.done /\ Len(CuePointsOf(cues.args.elements)) >= 1) =>
        LET points == CuePointsOf(cues.args.elements)
            N == Len(points)
            scale == cues.args.timecodeScaleNanoseconds
            time(i) == Scaled(points[i].unscaledTime, scale)
                       + cues.args.timestampOffset
            byte(i) == cues.args.segmentOffset + points[i].relativeOffset
            refs == cues.references
        IN  /\ cues.error = ""
            /\ Len(refs) = N
            /\ \A i \in 1..(N - 1) :
                   /\ refs[i].startTime = time(i)
                   /\ refs[i].endTime = time(i + 1)
                   /\ refs[i].startByte = byte(i)
                   /\ refs[i].endByte = byte(i + 1) - 1
                   /\ refs[i + 1].startTime = refs[i].endTime
                   /\ refs[i + 1].startByte = refs[i].endByte + 1
            /\ refs[N].startTime = time(N)
            /\ refs[N].endTime = Scaled(cues.args.durationScale, scale)
                                 + cues.args.timestampOffset
            /\ refs[N].startByte = byte(N)
            /\ refs[N].endByte = None

\* The number a string of digits denotes in a base.
RECURSIVE ParseDigits(_, _)
ParseDigits(chars, base) ==
    IF chars = <<>> THEN 0
    ELSE LET last == chars[Len(chars)]
             digit == CHOOSE d \in 0..15 :
                          LowerDigits[d + 1] = last \/ UpperDigits[d + 1] = last
         IN  ParseDigits(SubSeq(chars, 1, Len(chars) - 1), base) * base + digit

\* out is value left-padded with zeros to at least width characters and not
\* beyond.
ZeroPadded(out, valueString, width) ==
    /\ Len(out) = Max(width, Len(valueString))
    /\ SubSeq(out, Len(out) - Len(valueString) + 1, Len(out)) = valueString
    /\ \A j \in 1..(Len(out) - Len(valueString)) : out[j] = "0"

\* What fillUriTemplate returned, piece by piece: text and null-valued
\* matches are unchanged, "$$" is "$", a number is written in the base of its
\* format and zero-padded to its width (1 without one), a RepresentationID is
\* zero-padded to its width too (idWidth) or to 1; a match without an
\* identifier is an assertion failure.
UriReplaced(idWidth) ==
    uri.result.done =>
        LET args == uri.args
            template == args.uriTemplate
            result == uri.result
            width(item) == IF item.width = None \/ item.width = 0 THEN 1
                           ELSE item.width
            base(item) == IF item.format = "o" THEN 8
                          ELSE IF item.format \in {"x", "X"} THEN 16 ELSE 10
            number(item) == IF item.name = "Number" THEN args.number
                            ELSE args.time
        IN  /\ result.error # "" <=>
                   \E i \in 1..Len(template) :
                       template[i].kind = "match" /\ template[i].name = ""
            /\ result.error = "" =>
                   /\ Len(result.pieces) = Len(template)
                   /\ result.uri = Join(result.pieces)
                   /\ \A i \in 1..Len(template) :
                          LET item == template[i]
                              out == result.pieces[i]
                          IN  IF item.kind = "text" THEN out = item.chars
                              ELSE IF item.kind = "$$" THEN out = <<"$">>
                              ELSE IF item.name = "RepresentationID"
                              THEN IF args.representationId = Null
                                   THEN out = MatchText(item)
                                   ELSE ZeroPadded(
                                            out, args.representationId.items,
                                            IF idWidth THEN width(item)
                                            ELSE 1)
                              ELSE IF number(item) = None
                              THEN out = MatchText(item)
                              ELSE /\ ParseDigits(out, base(item))
                                          = number(item)
                                   /\ Len(out) >= width(item)
                                   /\ Len(out) > width(item) => out[1] # "0"
                                   /\ \A j \in 1..Len(out) :
                                          \E d \in 1..16 :
                                              out[j] =
                                                  IF item.format = "X"
                                                  THEN UpperDigits[d]
                                                  ELSE LowerDigits[d]

MaximalRun(time) ==
    LET timeline == templateInfo_.timeline
        ended(j) == timeline[j].end + periodStart_ <= time
    IN  CHOOSE n \in 0..Len(timeline) :
            /\ \A j \in 1..n : ended(j)
            /\ n < Len(timeline) => ~ended(n + 1)

\* Every slot of the reference cache holds the reference of the timeline
\* entry of the same index.
CacheMatchesTimeline ==
    \A i \in 1..Len(references) :
        references[i] # Null =>
            /\ templateInfo_ # Null
            /\ i <= Len(templateInfo_.timeline)
            /\ references[i].segmentPosition =
                   templateInfo_.timeline[i].segmentPosition
            /\ references[i].startTime =
                   periodStart_ + templateInfo_.timeline[i].start

\* C17 as stated: evict(time) removes exactly the maximal leading run of
\* entries with end + periodStart <= time and adds its length to numEvicted;
\* after every step each cache slot corresponds to the timeline entry of its
\* index; numEvicted never decreases.
C17_EvictAccounting ==
    [][/\ numEvicted_' >= numEvicted_
       /\ (ret'.op = "evict" /\ templateInfo_ # Null) =>
              /\ numEvicted_' = numEvicted_ + MaximalRun(ret'.arg)
              /\ templateInfo_' # Null =>
                     templateInfo_'.timeline =
                         Slice(templateInfo_.timeline, MaximalRun(ret'.arg))
              /\ templateInfo_' = Null =>
                     MaximalRun(ret'.arg) = Len(templateInfo_.timeline)
       /\ CacheMatchesTimeline'
      ]_vars

\* A timeline strictly ordered by start: no start time is present twice.
StrictlyOrdered(timeline) ==
    \A i \in 1..(Len(timeline) - 1) : timeline[i].start < timeline[i + 1].start

\* The timeline the index is to hold after a refresh with u: the timeline of
\* u when the index is empty or released, and otherwise the current entries
\* followed by the entries of u that start at or after the end of the
\* current last entry.
Appended(u) ==
    IF templateInfo_ = Null \/ Len(templateInfo_.timeline) = 0
    THEN u.info.timeline
    ELSE LET timeline == templateInfo_.timeline
             lastEnd == timeline[Len(timeline)].end
         IN  timeline \o SelectSeq(u.info.timeline,
                                   LAMBDA entry : entry.start >= lastEnd)

\* part is a run of consecutive entries of whole.
IsRunOf(part, whole) ==
    \E a \in 0..Len(whole) :
        /\ a + Len(part) <= Len(whole)
        /\ part = SubSeq(whole, a + 1, a + Len(part))

\* The step is a refresh with u: the index holds Appended(u), from which a
\* fit may only have dropped leading and trailing entries.
RefreshedWith(u) ==
    IF u.shouldFit
    THEN \/ templateInfo_' = Null
         \/ /\ templateInfo_' # Null
            /\ IsRunOf(templateInfo_'.timeline, Appended(u))
    ELSE /\ templateInfo_' # Null
         /\ templateInfo_'.timeline = Appended(u)

\* C18 as stated: a refresh of a populated index appends exactly the entries
\* of the new timeline that start at or after the end of the current last
\* entry and leaves the existing entries unchanged; a refresh of an empty or
\* released index adopts the new info wholesale; the merged timeline of
\* strictly ordered timelines is strictly ordered.
C18_AppendOnRefresh ==
    [][\A u \in Refreshes :
           AppendTemplateInfo(u) =>
               /\ RefreshedWith(u)
               /\ (/\ StrictlyOrdered(u.info.timeline)
                   /\ templateInfo_ # Null =>
                          StrictlyOrdered(templateInfo_.timeline)
                   /\ templateInfo_' # Null)
                  => StrictlyOrdered(templateInfo_'.timeline)
      ]_vars

\* What fitTimeline is to leave of the timeline merged: merged without its
\* dropped leading entries, which all end at or before the period start, and
\* without its trailing entries, which all start at or after the period end;
\* no entry left starts at or after the period end or ends at or before the
\* period start, and no entry left is rewritten.
Fitted(merged, dropped) ==
    LET timeline == templateInfo_'.timeline
        startOf(entry) == entry.start + periodStart_'
        endOf(entry) == entry.end + periodStart_'
    IN  /\ dropped \in 0..Len(merged)
        /\ templateInfo_' # Null =>
               /\ dropped + Len(timeline) <= Len(merged)
               /\ timeline = SubSeq(merged, dropped + 1, dropped + Len(timeline))
               /\ \A j \in 1..Len(timeline) :
                      /\ startOf(timeline[j]) < periodEnd_'
                      /\ endOf(timeline[j]) > periodStart_'
               /\ \A j \in 1..dropped : endOf(merged[j]) <= periodStart_'
               /\ \A j \in (dropped + Len(timeline) + 1)..Len(merged) :
                      startOf(merged[j]) >= periodEnd_'

\* A timeline of segments that follow one another: each has a duration and
\* none starts before the end of the one before it.
Consecutive(timeline) ==
    /\ \A j \in 1..Len(timeline) : timeline[j].start < timeline[j].end
    /\ \A j \in 1..(Len(timeline) - 1) : timeline[j].end <= timeline[j + 1].start

\* C19 as stated: after the fitTimeline of a refresh of a timeline of
\* consecutive segments, for any periodStart, no
\* remaining entry starts at or after the period end, none ends at or before
\* the period start, numEvicted has grown by the number of leading entries
\* dropped, and the end of the final remaining entry is not rewritten.
C19_FitTimeline ==
    [][\A u \in Refreshes :
           (/\ AppendTemplateInfo(u)
            /\ u.shouldFit
            /\ ~AppendThrows(Self, u.info)
            /\ Consecutive(Appended(u)))
           => Fitted(Appended(u), numEvicted_' - numEvicted_)
      ]_vars

\* C21: a tick keeps, as they are, the references that end after the current
\* availability start and appends behind them only references of positions
\* greater than every position created so far; the positions created since
\* generation are consecutive, so none is created twice and none is left out.
C21_TickAppendsNewOnly ==
    [][Tick =>
          LET kept == SelectSeq(genIndex.references,
                                LAMBDA ref :
                                    ref.endTime > genContext.availabilityStart)
              new == ticker'.appended
          IN  /\ genIndex'.references = kept \o new
              /\ \A i \in 1..Len(new) :
                     \A j \in 1..Len(ticker.created) :
                         new[i].position > ticker.created[j]
              /\ \A i \in 1..(Len(ticker'.created) - 1) :
                     ticker'.created[i + 1] = ticker'.created[i] + 1
      ]_vars

\* A tick that evicted a reference and appended one after the period
\* duration map gave the period another end.
C21_Witness ==
    /\ ticker # Null
    /\ ticker.returned = "references"
    /\ Len(ticker.appended) > 0
    /\ ticker.numEvicted > 0
    /\ genContext.mapDuration # 0
    /\ Len(ticker.created) > Len(ticker.appended)

\* The first and the last position of the available range [a, e) of the
\* context of the generator.
AvailablePositions ==
    LET ps == genContext.periodStart
        a == Max(genContext.availabilityStart, ps)
        e == Min(genContext.availabilityEnd, getPeriodEnd(genContext))
    IN  [first |-> Ceil(a - ps, genContext.segmentDuration)
                       + genContext.startNumber,
         last |-> Ceil(e - ps, genContext.segmentDuration) - 1
                      + genContext.startNumber]

\* C22: for a dynamic manifest the generator materializes at most
\* segmentLimit references, the newest ones: they are consecutive and end
\* at the last available position; for a static manifest it materializes
\* every position of the available range.
C22_SegmentLimit ==
    (genIndex.generated /\ ~genIndex.threw) =>
        LET available == Max(0, AvailablePositions.last
                                    - AvailablePositions.first + 1)
            refs == genIndex.references
        IN  /\ genContext.dynamic =>
                   /\ Len(refs) <= genContext.segmentLimit
                   /\ Len(refs) = Min(genContext.segmentLimit, available)
                   /\ \A i \in 1..Len(refs) :
                          refs[i].position =
                              AvailablePositions.last - Len(refs) + i
            /\ ~genContext.dynamic =>
                   /\ Len(refs) = available
                   /\ \A i \in 1..Len(refs) :
                          refs[i].position = AvailablePositions.first + i - 1

\* A dynamic manifest with more available positions than the limit: the
\* oldest are not materialized.
C22_Witness ==
    /\ genIndex.generated
    /\ ~genIndex.threw
    /\ genContext.dynamic
    /\ genContext.segmentLimit = 2
    /\ Len(genIndex.references) = 2
    /\ genIndex.references[1].position > AvailablePositions.first

\* C23: a tick returns null exactly when the availability start is past the
\* period end and the tick created no reference, and otherwise returns the
\* references it created; no tick follows a null; and the timer of a dynamic
\* presentation whose period has a finite end eventually gets a null.
C23_TickTermination ==
    /\ [][Tick =>
             /\ ticker.returned # "null"
             /\ ticker'.returned = "null" <=>
                    /\ genContext.availabilityStart > getPeriodEnd(genContext)
                    /\ ticker'.created = ticker.created
             /\ ticker'.returned # "null" =>
                    /\ ticker'.returned = "references"
                    /\ PositionsOf(ticker'.appended)
                           = SubSeq(ticker'.created, Len(ticker.created) + 1,
                                    Len(ticker'.created))
         ]_vars
    /\ (/\ genContext.dynamic
        /\ genIndex.updating
        /\ getPeriodEnd(genContext) # Infinity) ~> (ticker.returned = "null")

\* The timer ended after it had evicted and appended references.
C23_Witness ==
    /\ ticker # Null
    /\ ticker.returned = "null"
    /\ ticker.numEvicted > 0
    /\ Len(ticker.created) > 2
    /\ Len(genIndex.references) = 0

\* The start of the first S element of the call, adjusted by the
\* presentation time offset.
FirstStart ==
    IF ctArgs.S[1].t # None THEN ctArgs.S[1].t - ctArgs.pto ELSE -ctArgs.pto

\* C24 as stated, for a first S element with r < 0 and a duration.  Followed
\* by an element (r >= 0) with a valid t after its start: its repetitions start
\* every d from its start, all before the adjusted start t - pto of the next
\* element, and the entry after them, the first of the next element, starts
\* there.  Alone, in a period of
\* finite duration that its start lies in: its repetitions all start within
\* the period and the last one ends at or after the period duration.  Alone,
\* in a period of infinite duration: the timeline is returned empty.
C24_NegativeRepeat ==
    (/\ ctResult.done
     /\ Len(ctArgs.S) >= 1
     /\ ctArgs.S[1].r < 0
     /\ ctArgs.S[1].d > 0) =>
        LET timeline == ctResult.timeline
            d == ctArgs.S[1].d
            nextStart == ctArgs.S[2].t - ctArgs.pto
            count == Ceil(nextStart - FirstStart, d)
        IN  /\ (/\ Len(ctArgs.S) = 2
                /\ ctArgs.S[2].t # None
                /\ ctArgs.S[2].d > 0
                /\ ctArgs.S[2].r >= 0
                /\ nextStart > FirstStart) =>
                   /\ Len(timeline) = count + ctArgs.S[2].r + 1
                   /\ \A j \in 1..count :
                          /\ timeline[j].unscaledStart = FirstStart + (j - 1) * d
                          /\ timeline[j].unscaledStart < nextStart
                   /\ timeline[count + 1].unscaledStart = nextStart
            /\ (/\ Len(ctArgs.S) = 1
                /\ ctArgs.periodDuration # Infinity
                /\ ToSeconds(FirstStart, ctArgs.timescale)
                       < ctArgs.periodDuration) =>
                   /\ Len(timeline) > 0
                   /\ \A j \in 1..Len(timeline) :
                          /\ timeline[j].unscaledStart = FirstStart + (j - 1) * d
                          /\ timeline[j].start < ctArgs.periodDuration
                   /\ timeline[Len(timeline)].end >= ctArgs.periodDuration
            /\ (Len(ctArgs.S) = 1 /\ ctArgs.periodDuration = Infinity) =>
                   timeline = <<>>

\* The levels from the nearest to the farthest, and the nearest one that
\* declares a Segment*.
Levels == <<"representation", "adaptationSet", "period">>

Declared(level) == {type \in SegmentTypes : frames[level][type] # Null}

NearestDeclaring ==
    IF Declared("representation") # {} THEN "representation"
    ELSE IF Declared("adaptationSet") # {} THEN "adaptationSet"
    ELSE "period"

\* The values of the levels that declare the Segment* of the type in use,
\* from the nearest.
DeclaredValues(type, Value(_)) ==
    LET declaring == SelectSeq(Levels, LAMBDA level : frames[level][type] # Null)
    IN  [i \in 1..Len(declaring) |-> Value(frames[declaring[i]][type])]

NearestTruthy(values, result) ==
    IF \E i \in 1..Len(values) : Truthy(values[i])
    THEN LET i == CHOOSE i \in 1..Len(values) :
                      /\ Truthy(values[i])
                      /\ \A j \in 1..(i - 1) : ~Truthy(values[j])
         IN  result = values[i]
    ELSE ~Truthy(result)

AttributeOf(node) == node.attribute

ChildOf(node) == IF node.child THEN Attr(node.owner) ELSE Null

\* C25: the attribute and the child looked up through the frames are those of
\* the nearest level, in the order Representation, AdaptationSet, Period, that
\* has them, and nothing when no level has them; and when no level declares
\* two Segment* elements, the Segment* used for the Representation is the one
\* of the nearest level that declares one.
C25_NearestInheritance ==
    (frames # Null /\ frames.result.done /\ frames.result.type # "") =>
        /\ NearestTruthy(DeclaredValues(frames.result.type, AttributeOf),
                         frames.result.attribute)
        /\ NearestTruthy(DeclaredValues(frames.result.type, ChildOf),
                         frames.result.child)
        /\ (\A level \in {"representation", "adaptationSet", "period"} :
                Cardinality(Declared(level)) <= 1) =>
               /\ Declared(NearestDeclaring) = {frames.result.type}
               /\ frames.result.node = frames[NearestDeclaring][frames.result.type]

\* The lookups alone.
C25_NearestLookup ==
    (frames # Null /\ frames.result.done /\ frames.result.type # "") =>
        /\ NearestTruthy(DeclaredValues(frames.result.type, AttributeOf),
                         frames.result.attribute)
        /\ NearestTruthy(DeclaredValues(frames.result.type, ChildOf),
                         frames.result.child)

\* The reference a construction from the current timeline gives for a
\* position in range.
FreshReference(position) == NewReference(Self, position - numEvicted_, 0)

\* C26: at all times the reference get(p) returns for a position p in range
\* starts at periodStart + entry.start and ends where a reference newly
\* constructed from the current timeline would end: at periodEnd when p is
\* the last position and periodEnd is finite, and at periodStart + entry.end
\* otherwise.
C26_CachedAgreesWithIndex ==
    \A position \in Positions :
        (Populated /\ InRange(position)) =>
            LET entry == templateInfo_.timeline[position - numEvicted_ + 1]
                isLast == position - numEvicted_ = getNumReferences(Self) - 1
            IN  /\ WouldGet(position).startTime = periodStart_ + entry.start
                /\ WouldGet(position).endTime =
                       IF isLast /\ periodEnd_ # Infinity
                       THEN periodEnd_ ELSE periodStart_ + entry.end
                /\ WouldGet(position).endTime = FreshReference(position).endTime

\* The same as long as the index is neither evicted nor refreshed.
C26_AgreesBeforeUpdates ==
    (numUpdates = 0 /\ numEvicted_ = 0) => C26_CachedAgreesWithIndex

\* C27: the index never holds a template info with an empty timeline, and
\* therefore no appendTemplateInfo of a refresh fails.
C27_PopulatedNonEmpty ==
    /\ templateInfo_ # Null => Len(templateInfo_.timeline) > 0
    /\ ret.op = "appendTemplateInfo" => ret.val = 0

\* The eviction alone: an index with entries is left with entries or
\* released.
C27_EvictReleasesEmpty ==
    [][\A time \in Times :
           (Populated /\ Evict(time)) =>
               \/ templateInfo_' = Null
               \/ Len(templateInfo_'.timeline) > 0]_vars

\* Two calls overlap: both are past the test of stream.segmentIndex and
\* neither has been resumed since the index was last closed.
Overlapping == {c \in Callers : stream.pc[c] = "awaiting"}

\* The indexes with a timer that nothing refers to: neither the stream nor
\* a call that is about to store it.
Orphaned ==
    {index \in stream.timers :
         /\ stream.segmentIndex # index
         /\ \A c \in Overlapping : stream.awaited[c] # index}

\* C28: calls of createSegmentIndex that overlap run generateSegmentIndex
\* once and end with the same index, and no index with a regeneration timer
\* is left without the stream referring to it.
C28_GenerateOnce ==
    stream # Null =>
        /\ \A c, d \in Overlapping : stream.awaited[c] = stream.awaited[d]
        /\ Orphaned = {}

\* C29: after every sequence of calls of the reader the position is within
\* 0..byteLength, and a call that throws leaves the position where it was.
C29_CursorInvariant ==
    /\ [](reader # Null =>
             reader.position_ >= 0 /\ reader.position_ <= Len(reader.data))
    /\ [][(reader # Null /\ reader'.error # "") =>
              reader'.position_ = reader.position_]_vars

\* The same for the calls other than readTerminatedString.
C29_CursorOfFixedReads ==
    [][(reader # Null /\ reader'.op # "readTerminatedString"
        /\ reader.position_ <= Len(reader.data)) =>
           /\ reader'.position_ >= 0
           /\ reader'.position_ <= Len(reader.data)
           /\ reader'.error # "" => reader'.position_ = reader.position_]_vars

\* C30: when abort() is called on an operation or on the operation chained
\* to it before the underlying promise settles, onSuccess is never invoked
\* and the promise of the chained operation rejects with the abort error;
\* the calls of abort() on the chained operation invoke the abort handler of
\* the operation at most once.
C30_AbortBeforeSettle ==
    operation # Null =>
        /\ operation.abortedWhilePending => operation.onSuccessCalls = 0
        /\ (operation.abortedWhilePending /\ operation.reacted) =>
               operation.chained.promise =
                   [state |-> "rejected", error |-> abortError]
        /\ operation.abortCalls = 0 => operation.onAbortCalls <= 1

\* The same where the underlying promise settles with a value.
C30_AbortThenValue ==
    operation # Null =>
        /\ operation.abortedWhilePending => operation.onSuccessCalls = 0
        /\ (/\ operation.abortedWhilePending
            /\ operation.reacted
            /\ operation.promise.state = "resolved") =>
               operation.chained.promise =
                   [state |-> "rejected", error |-> abortError]
        /\ operation.abortCalls = 0 => operation.onAbortCalls <= 1
====
